---- MODULE Spec2Model ----
(***************************************************************************)
(* Risk-and-sizing core of the multi-strategy engine.                      *)
(*                                                                         *)
(*   - GlobalRiskKernel (engine/src/risk/kernel.rs): evaluate,             *)
(*     apply_cashflow_reset and the scalars they use.                      *)
(*   - MacroFuturesSleeve (engine/src/strategies/macro_futures_sleeve.rs): *)
(*     plan_positions, plan_contracts, the risk report, the aggregate and  *)
(*     plan_order_intents.                                                 *)
(*                                                                         *)
(* Number representation.  The source computes in f64; the model computes  *)
(* in exact fixed point:                                                   *)
(*   USD and EUR amounts      integer cents                                *)
(*   drawdown thresholds      integer percent        (-0.08  -> -8)        *)
(*   max_single_pos_risk_frac integer permille       (0.01   -> 10)        *)
(*   leverage                 integer hundredths     (1.5    -> 150)       *)
(*   volatility scalar        integer percent        (0.55   -> 55)        *)
(*   leverage scalar          integer 1/10000        (1.10   -> 11000)     *)
(*   conviction, risk frac    integer permille       (0.713  -> 713)       *)
(*   eur_per_usd              integer percent        (0.92   -> 92)        *)
(* A comparison a/b - 1 <= k is evaluated cross-multiplied, so it is exact.*)
(* Products that leave the grid are truncated to it (Trunc), as f64 rounds *)
(* to its own grid.                                                        *)
(***************************************************************************)
EXTENDS Integers, Sequences, FiniteSets, TLC

VARIABLES
    \* ---- GlobalRiskKernel and the caller-owned arguments of evaluate ----
    config,      \* GlobalRiskKernel.config
    peak,        \* GlobalRiskKernel.internal_portfolio_peak_equity
    sleeves,     \* the caller's &mut [SleeveState]
    tick,        \* the portfolio, margin and vol snapshots of the last evaluate
    envelopes,   \* the Vec<SleeveRiskEnvelope> the last evaluate returned
    kop,         \* the last kernel operation: "new", "evaluate", "reset"
    cashflow,    \* the arguments of apply_cashflow_reset, while it is the
                 \* last kernel operation
    \* ---- MacroFuturesSleeve: one heartbeat over one context ----
    ctx,         \* FuturesSleeveContext
    budget,      \* FuturesRiskBudget
    cap,         \* max_sleeve_risk_eur
    hb,          \* MacroFuturesHeartbeatOutput (plus the intermediate plans)
    spc,         \* "idle", "ready" (context built), "done" (heartbeat returned),
                 \* "mapped" (engine orders built)
    \* ---- execution: orders, risk decisions, supervisor and sinks ----
    engine_orders,  \* the sleeve_id given to map_heartbeat_to_engine_orders and
                    \* the Vec<EngineOrder> it returned
    decision,       \* the RiskDecision of evaluate_new_position_risk
    supervisor,     \* HeartbeatSupervisor
    sink,           \* InMemoryOrderSink.orders
    log,            \* the lines given to the HeartbeatLogSink
    now_ts,         \* the timestamp given to the last tick: <<>> before the
                    \* first, <<ts>> afterwards
    batching        \* BatchingHeartbeatLogger: its buffer and capacity (its
                    \* inner sink is log)

kvars == <<config, peak, sleeves, tick, envelopes, kop, cashflow>>
svars == <<ctx, budget, cap, hb, spc>>
xvars == <<engine_orders, decision, supervisor, sink, log, now_ts, batching>>
vars == <<config, peak, sleeves, tick, envelopes, kop, cashflow, ctx, budget, cap, hb, spc,
          engine_orders, decision, supervisor, sink, log, now_ts, batching>>

----------------------------------------------------------------------------
(* Arithmetic helpers *)

Min(a, b) == IF a <= b THEN a ELSE b
Max(a, b) == IF a >= b THEN a ELSE b
Abs(a) == IF a >= 0 THEN a ELSE -a
Clamp(x, lo, hi) == Min(Max(x, lo), hi)

\* Division truncating toward zero (TLA+ \div floors).
Trunc(a, b) == IF a >= 0 THEN a \div b ELSE -((-a) \div b)

RECURSIVE SumSeq(_)
SumSeq(s) == IF s = <<>> THEN 0 ELSE Head(s) + SumSeq(Tail(s))

----------------------------------------------------------------------------
(* Bounds of the model *)

\* Largest open_positions count a sleeve state is given.
MaxOpen == 2

\* max_global_positions of the kernel configuration (15 in the 10k profile).
MaxGlobal == 3

\* max_concurrent_positions of the options sleeve (6 in the 10k profile).
MaxOptionsSlots == 1

----------------------------------------------------------------------------
(* GlobalRiskKernel: types and configuration *)

HaltStates == {"None", "Halt", "Kill"}

IsHaltOrKill(h) == h \in {"Halt", "Kill"}

\* default_portfolio_config_10k with the options and the micro-futures
\* sleeves of default_sleeve_configs_10k.  USD in cents, drawdown limits in
\* percent, max_leverage in hundredths, max_single_pos_risk_frac in
\* permille; the slot counts of the portfolio and of the options sleeve are
\* the model's bounds.
KernelConfig ==
    [portfolio |->
        [initial_equity_usd |-> 1000000,
         halt_dd_frac |-> -8,
         kill_dd_frac |-> -12,
         max_leverage |-> 150,
         max_global_positions |-> MaxGlobal],
     sleeves |-> <<
        [sleeve_id |-> "MicroFuturesMacroTrend",
         capital_alloc_usd |-> 200000,
         max_single_pos_risk_frac |-> 45,
         halt_dd_frac |-> -10,
         kill_dd_frac |-> -15,
         max_concurrent_positions |-> 3],
        [sleeve_id |-> "OptionsVolPremium",
         capital_alloc_usd |-> 200000,
         max_single_pos_risk_frac |-> 30,
         halt_dd_frac |-> -10,
         kill_dd_frac |-> -15,
         max_concurrent_positions |-> MaxOptionsSlots] >>]

\* .find(|c| c.sleeve_id == sleeve.sleeve_id)
SleeveConfigOf(cfg, id) ==
    LET i == CHOOSE j \in 1..Len(cfg.sleeves) : cfg.sleeves[j].sleeve_id = id
    IN cfg.sleeves[i]

----------------------------------------------------------------------------
(* GlobalRiskKernel: the pure parts of evaluate *)

EquityNow(p) == p.cash_usd + p.open_pnl_usd + p.accrued_interest_usd

\* Mutant of UpdatePeak: the mark follows the equity down as well.
UpdatePeakUnguarded(pk, equity) == equity

\* High-water mark update: raised to the current equity, never lowered.
UpdatePeak(pk, equity) == IF equity > pk THEN equity ELSE pk

\* dd_frac <= threshold, where dd_frac = equity / peak - 1 if peak > 0, else 0.
\* threshold_pct is the threshold in percent.
DrawdownAtOrBelow(equity, pk, threshold_pct) ==
    IF pk > 0
    THEN 100 * (equity - pk) <= threshold_pct * pk
    ELSE 0 <= threshold_pct

\* Mutant of HaltStateOf: the kill threshold is not looked at.
HaltStateWithoutKill(equity, pk, halt_pct, kill_pct) ==
    IF DrawdownAtOrBelow(equity, pk, halt_pct) THEN "Halt" ELSE "None"

HaltStateOf(equity, pk, halt_pct, kill_pct) ==
    IF DrawdownAtOrBelow(equity, pk, kill_pct) THEN "Kill"
    ELSE IF DrawdownAtOrBelow(equity, pk, halt_pct) THEN "Halt"
    ELSE "None"

RiskStateOf(equity, pk, halt_pct, kill_pct) ==
    IF DrawdownAtOrBelow(equity, pk, kill_pct) THEN "Stress"
    ELSE IF DrawdownAtOrBelow(equity, pk, halt_pct) THEN "Caution"
    ELSE "Normal"

\* Mutant of ExposureRemaining: the clamp at zero is missing.
ExposureRemainingUnclamped(pcfg, p) ==
    Trunc(pcfg.max_leverage * EquityNow(p), 100) - p.total_notional_exposure

\* (max_leverage * equity_now - total_notional_exposure).max(0.0)
ExposureRemaining(pcfg, p) ==
    Max(Trunc(pcfg.max_leverage * EquityNow(p), 100) - p.total_notional_exposure, 0)

\* (equity_now - max(internal, broker)).max(0.0)
MarginRemaining(p, m) ==
    Max(EquityNow(p) - Max(m.internal_margin_req_usd, m.broker_margin_req_usd), 0)

\* Mutant of derive_volatility_scalar: the Elevated regime is tested before
\* the Stress regime.
DeriveVolatilityScalarElevatedFirst(vol) ==
    IF vol.vix_level >= 25 \/ vol.rv10_annualized >= 20
    THEN Min(Max(80, 50), 130)
    ELSE IF vol.vix_level >= 35 \/ vol.rv10_annualized >= 30 \/ vol.vix_term_slope < 0
    THEN Min(Max(55, 50), 130)
    ELSE IF vol.vix_level < 15 /\ vol.rv10_annualized < 12 /\ vol.vix_term_slope > 5
    THEN Min(Max(125, 50), 130)
    ELSE 100

\* vix, rv in whole points; slope in tenths.  Result in percent.
derive_volatility_scalar(vol) ==
    IF vol.vix_level >= 35 \/ vol.rv10_annualized >= 30 \/ vol.vix_term_slope < 0
    THEN Min(Max(55, 50), 130)
    ELSE IF vol.vix_level >= 25 \/ vol.rv10_annualized >= 20
    THEN Min(Max(80, 50), 130)
    ELSE IF vol.vix_level < 15 /\ vol.rv10_annualized < 12 /\ vol.vix_term_slope > 5
    THEN Min(Max(125, 50), 130)
    ELSE 100

\* Mutant of derive_leverage_scalar: no cut-off at or above max_leverage.
DeriveLeverageScalarWithoutCutoff(p, pcfg) ==
    LET max_lev == Max(pcfg.max_leverage, 10)
        cur_lev == Max(p.current_leverage, 0)
        x == (cur_lev * 10000) \div max_lev
        scalar == IF x <= 3000 THEN 11000 - Trunc(2500 * x, 10000)
                  ELSE IF x <= 7000 THEN 10300 - Trunc(2000 * (x - 3000), 10000)
                  ELSE 9500 - Trunc(217 * (x - 7000), 100)
    IN Clamp(scalar, 0, 11000)

\* Leverage in hundredths; x and the result in 1/10000.
derive_leverage_scalar(p, pcfg) ==
    LET max_lev == Max(pcfg.max_leverage, 10)
        cur_lev == Max(p.current_leverage, 0)
        x == (cur_lev * 10000) \div max_lev
        scalar == IF x <= 3000 THEN 11000 - Trunc(2500 * x, 10000)
                  ELSE IF x <= 7000 THEN 10300 - Trunc(2000 * (x - 3000), 10000)
                  ELSE 9500 - Trunc(217 * (x - 7000), 100)
    IN IF cur_lev >= max_lev THEN 0 ELSE Clamp(scalar, 0, 11000)

TotalOpenPositions(ss) == SumSeq([i \in 1..Len(ss) |-> ss[i].open_positions])

RemainingSlots(pcfg, ss) ==
    IF TotalOpenPositions(ss) >= pcfg.max_global_positions
    THEN 0
    ELSE pcfg.max_global_positions - TotalOpenPositions(ss)

\* Mutant of ExtraPerSleeve: the share of the remaining slots is rounded up.
ExtraPerSleeveRoundedUp(pcfg, ss) ==
    IF RemainingSlots(pcfg, ss) > 0 /\ Len(ss) > 0
    THEN (RemainingSlots(pcfg, ss) + Len(ss) - 1) \div Len(ss)
    ELSE 0

\* Mutant of ExtraPerSleeve: every sleeve is offered all remaining slots.
ExtraPerSleeveUndivided(pcfg, ss) ==
    IF RemainingSlots(pcfg, ss) > 0 /\ Len(ss) > 0 THEN RemainingSlots(pcfg, ss) ELSE 0

ExtraPerSleeve(pcfg, ss) ==
    IF RemainingSlots(pcfg, ss) > 0 /\ Len(ss) > 0
    THEN RemainingSlots(pcfg, ss) \div Len(ss)
    ELSE 0

\* Dynamic concurrency cap of one sleeve.
DynMaxConcurrent(scfg, s, remaining_slots, extra_per_sleeve) ==
    IF remaining_slots = 0
    THEN s.open_positions
    ELSE Min(scfg.max_concurrent_positions, s.open_positions + extra_per_sleeve)

\* Position size: base * vol scalar * leverage scalar, capped by the exposure
\* headroom, zero without headroom.
SizedPosition(scfg, vol_scalar, lev_scalar, exposure_remaining, margin_remaining) ==
    LET base_pos_usd == Trunc(scfg.capital_alloc_usd * scfg.max_single_pos_risk_frac, 1000)
        sized == Trunc(Trunc(base_pos_usd * vol_scalar, 100) * lev_scalar, 10000)
    IN IF margin_remaining <= 0 \/ exposure_remaining <= 0
       THEN 0
       ELSE Min(sized, exposure_remaining)

\* Mutant of MaxPositionSize: once a call has returned a halt, the size
\* stays zero.
MaxPositionSizeLatched(sized, portfolio_halt, sleeve_halt) ==
    IF \/ IsHaltOrKill(portfolio_halt) \/ IsHaltOrKill(sleeve_halt)
       \/ \E i \in 1..Len(envelopes) :
             IsHaltOrKill(envelopes[i].portfolio_halt) \/ IsHaltOrKill(envelopes[i].sleeve_halt)
    THEN 0 ELSE sized

\* Mutant of MaxPositionSize: only the portfolio halt zeroes the size.
MaxPositionSizePortfolioOnly(sized, portfolio_halt, sleeve_halt) ==
    IF IsHaltOrKill(portfolio_halt) THEN 0 ELSE sized

\* The halt override of the position size.
MaxPositionSize(sized, portfolio_halt, sleeve_halt) ==
    IF IsHaltOrKill(portfolio_halt) \/ IsHaltOrKill(sleeve_halt) THEN 0 ELSE sized

\* Mutant of SleeveAfter: the drawdown from the peak is booked as unrealized
\* PnL of the sleeve state.
SleeveAfterBookingDrawdown(s) ==
    [s EXCEPT !.peak_equity_usd = UpdatePeak(s.peak_equity_usd, s.equity_usd),
              !.unrealized_pnl_usd = s.equity_usd - UpdatePeak(s.peak_equity_usd, s.equity_usd)]

\* The sleeve state after the per-sleeve HWM update.
SleeveAfter(s) == [s EXCEPT !.peak_equity_usd = UpdatePeak(s.peak_equity_usd, s.equity_usd)]

\* The envelope of sleeve state s (already carrying its updated peak).
EnvelopeOf(cfg, pk, p, m, vol, ss, s) ==
    LET pcfg == cfg.portfolio
        scfg == SleeveConfigOf(cfg, s.sleeve_id)
        equity_now == EquityNow(p)
        portfolio_halt_state ==
            HaltStateOf(equity_now, pk, pcfg.halt_dd_frac, pcfg.kill_dd_frac)
        sleeve_halt_state ==
            HaltStateOf(s.equity_usd, s.peak_equity_usd, scfg.halt_dd_frac, scfg.kill_dd_frac)
        exposure_remaining_usd == ExposureRemaining(pcfg, p)
        margin_remaining_usd == MarginRemaining(p, m)
        volatility_regime_scalar == derive_volatility_scalar(vol)
        leverage_scalar == derive_leverage_scalar(p, pcfg)
        sized == SizedPosition(scfg, volatility_regime_scalar, leverage_scalar,
                               exposure_remaining_usd, margin_remaining_usd)
    IN [sleeve_id |-> s.sleeve_id,
        sleeve_halt |-> sleeve_halt_state,
        portfolio_halt |-> portfolio_halt_state,
        max_position_size_usd |->
            MaxPositionSize(sized, portfolio_halt_state, sleeve_halt_state),
        max_concurrent_positions |->
            DynMaxConcurrent(scfg, s, RemainingSlots(pcfg, ss), ExtraPerSleeve(pcfg, ss)),
        exposure_remaining_usd |-> exposure_remaining_usd,
        margin_remaining_usd |-> margin_remaining_usd,
        volatility_regime_scalar |-> volatility_regime_scalar,
        leverage_scalar |-> leverage_scalar,
        portfolio_risk_state |->
            RiskStateOf(equity_now, pk, pcfg.halt_dd_frac, pcfg.kill_dd_frac)]

----------------------------------------------------------------------------
(* GlobalRiskKernel: inputs of a tick *)

BasePortfolio ==
    [cash_usd |-> 1000000, open_pnl_usd |-> 0, accrued_interest_usd |-> 0,
     total_notional_exposure |-> 0, current_leverage |-> 0]

\* PortfolioState snapshots whose equity moves: no drawdown, -10% (Halt),
\* -20% (Kill), a new high, and negative equity.
EquityPortfolios ==
    [cash_usd : {1000000},
     open_pnl_usd : {0, -80000, -100000, -200000, 200000, -1500000},
     accrued_interest_usd : {0, 100},
     total_notional_exposure : {0},
     current_leverage : {0}]

\* Snapshots beside which the sleeve states move: no drawdown and Halt.
SleeveTickPortfolios ==
    [cash_usd : {1000000},
     open_pnl_usd : {0, -100000},
     accrued_interest_usd : {0},
     total_notional_exposure : {0},
     current_leverage : {0}]

\* Snapshots whose exposure moves below and above the leverage limit, with
\* positive and negative equity.
HeadroomPortfolios ==
    [cash_usd : {1000000},
     open_pnl_usd : {0, -1500000},
     accrued_interest_usd : {0},
     total_notional_exposure : {0, 500000, 2000000},
     current_leverage : {0}]

\* Snapshots whose leverage moves from flat to beyond max_leverage.
LeveragePortfolios ==
    [cash_usd : {1000000},
     open_pnl_usd : {0},
     accrued_interest_usd : {0},
     total_notional_exposure : {0, 1400000},
     current_leverage : {-10, 30, 75, 120, 150, 200}]

BaseMargin == [internal_margin_req_usd |-> 0, broker_margin_req_usd |-> 0]

MarginStates ==
    [internal_margin_req_usd : {0, 500000},
     broker_margin_req_usd : {0, 1100000}]

BaseVol == [rv10_annualized |-> 12, vix_level |-> 18, vix_term_slope |-> 3]

VolatilityRegimes ==
    [rv10_annualized : {10, 22, 31},
     vix_level : {12, 18, 26, 36},
     vix_term_slope : {-1, 3, 6}]

\* What the caller writes into its sleeve states between two ticks: the
\* first sleeve at -15%, flat and at a new high; both with 0..MaxOpen open
\* positions.
SleeveUpdates ==
    {u \in [1..2 -> [equity_usd : {170000, 200000, 250000}, open_positions : 0..MaxOpen]] :
        u[2].equity_usd = 200000}

BaseSleeveUpdate == [i \in 1..2 |-> [equity_usd |-> 200000, open_positions |-> 0]]

NoTick == [portfolio |-> BasePortfolio, margin |-> BaseMargin, vol |-> BaseVol, sleeves |-> <<>>]

\* A rejection: nothing new is allowed.
Rejection(reason) ==
    [allow_new_position |-> FALSE,
     max_new_positions |-> 0,
     max_order_notional_usd |-> 0,
     reason |-> reason]

\* Mutant of RejectionReason: the exposure headroom is looked at before the
\* margin headroom.
RejectionReasonExposureFirst(sleeve_state, env) ==
    IF IsHaltOrKill(env.portfolio_halt) THEN "PortfolioHalt"
    ELSE IF IsHaltOrKill(env.sleeve_halt) THEN "SleeveHalt"
    ELSE IF env.exposure_remaining_usd <= 0 THEN "NoExposureHeadroom"
    ELSE IF env.margin_remaining_usd <= 0 THEN "NoMarginHeadroom"
    ELSE IF env.max_position_size_usd <= 0 THEN "PositionSizeZero"
    ELSE IF sleeve_state.open_positions >= env.max_concurrent_positions
         THEN "ConcurrencyLimit"
    ELSE "Ok"

\* The early returns of evaluate_new_position_risk, in their order; "Ok"
\* when none is taken.
RejectionReason(sleeve_state, env) ==
    IF IsHaltOrKill(env.portfolio_halt) THEN "PortfolioHalt"
    ELSE IF IsHaltOrKill(env.sleeve_halt) THEN "SleeveHalt"
    ELSE IF env.margin_remaining_usd <= 0 THEN "NoMarginHeadroom"
    ELSE IF env.exposure_remaining_usd <= 0 THEN "NoExposureHeadroom"
    ELSE IF env.max_position_size_usd <= 0 THEN "PositionSizeZero"
    ELSE IF sleeve_state.open_positions >= env.max_concurrent_positions
         THEN "ConcurrencyLimit"
    ELSE "Ok"

evaluate_new_position_risk(sleeve_state, env) ==
    LET reason == RejectionReason(sleeve_state, env)
    IN IF reason # "Ok" THEN Rejection(reason)
       ELSE [allow_new_position |-> TRUE,
             max_new_positions |->
                 env.max_concurrent_positions - sleeve_state.open_positions,
             max_order_notional_usd |-> env.max_position_size_usd,
             reason |-> "Ok"]

----------------------------------------------------------------------------
(* GlobalRiskKernel: operations *)

NoCashflow == <<>>

\* GlobalRiskKernel::new
KernelNew ==
    /\ config = KernelConfig
    /\ peak = KernelConfig.portfolio.initial_equity_usd
    /\ sleeves = [i \in 1..2 |->
                    [sleeve_id |-> KernelConfig.sleeves[i].sleeve_id,
                     equity_usd |-> 200000,
                     realized_pnl_usd |-> 0,
                     unrealized_pnl_usd |-> 0,
                     peak_equity_usd |-> 200000,
                     open_positions |-> 0]]
    /\ tick = NoTick
    /\ envelopes = <<>>
    /\ kop = "new"
    /\ cashflow = NoCashflow

\* .find(|c| c.sleeve_id == sleeve.sleeve_id) is Some
HasSleeveConfig(cfg, id) ==
    \E j \in 1..Len(cfg.sleeves) : cfg.sleeves[j].sleeve_id = id

\* The first sleeve state of the slice on which .expect("missing sleeve
\* config") panics.
FirstWithoutConfig(cfg, ss) ==
    CHOOSE i \in 1..Len(ss) :
        /\ ~HasSleeveConfig(cfg, ss[i].sleeve_id)
        /\ \A j \in 1..(i - 1) : HasSleeveConfig(cfg, ss[j].sleeve_id)

\* What a call that panics returns: nothing.
NoEnvelopes == <<>>

\* Mutant of evaluate: a sleeve without configuration is given the limits
\* of the first configured sleeve.
EvaluateGuessingConfig(p, m, vol, upd) ==
    LET passed == [i \in 1..Len(sleeves) |->
                     [sleeves[i] EXCEPT !.equity_usd = upd[i].equity_usd,
                                        !.open_positions = upd[i].open_positions]]
        new_peak == UpdatePeak(peak, EquityNow(p))
        after == [i \in 1..Len(passed) |-> SleeveAfter(passed[i])]
        guessed == [config EXCEPT !.sleeves =
                       config.sleeves \o
                       [i \in 1..Len(passed) |->
                           [config.sleeves[1] EXCEPT !.sleeve_id = passed[i].sleeve_id]]]
    IN /\ peak' = new_peak
       /\ sleeves' = after
       /\ envelopes' = [i \in 1..Len(after) |->
                           EnvelopeOf(guessed, new_peak, p, m, vol, passed, after[i])]
       /\ kop' = "evaluate"
       /\ tick' = [portfolio |-> p, margin |-> m, vol |-> vol, sleeves |-> passed]
       /\ cashflow' = NoCashflow
       /\ UNCHANGED config

\* GlobalRiskKernel::evaluate(now, portfolio p, sleeves, margin m, vol)
\* upd is what the caller wrote into the sleeve states before the call; the
\* arguments of the call, the slice as passed among them, are kept in tick.
evaluate(p, m, vol, upd) ==
    LET passed == [i \in 1..Len(sleeves) |->
                     [sleeves[i] EXCEPT !.equity_usd = upd[i].equity_usd,
                                        !.open_positions = upd[i].open_positions]]
        new_peak == UpdatePeak(peak, EquityNow(p))
        after == [i \in 1..Len(passed) |-> SleeveAfter(passed[i])]
    IN /\ peak' = new_peak
       /\ IF \A i \in 1..Len(passed) : HasSleeveConfig(config, passed[i].sleeve_id)
          THEN /\ sleeves' = after
               /\ envelopes' = [i \in 1..Len(after) |->
                                   EnvelopeOf(config, new_peak, p, m, vol, passed, after[i])]
               /\ kop' = "evaluate"
          ELSE /\ sleeves' = [i \in 1..Len(passed) |->
                                 IF i < FirstWithoutConfig(config, passed)
                                 THEN after[i] ELSE passed[i]]
               /\ envelopes' = NoEnvelopes
               /\ kop' = "panic"
       /\ tick' = [portfolio |-> p, margin |-> m, vol |-> vol, sleeves |-> passed]
       /\ cashflow' = NoCashflow
       /\ UNCHANGED config

\* A tick on which the portfolio equity moves.
EvaluateEquity ==
    \E p \in EquityPortfolios :
        evaluate(p, BaseMargin, BaseVol, BaseSleeveUpdate)

\* A tick on which the sleeves' equity and open positions move.
EvaluateSleeves ==
    \E p \in SleeveTickPortfolios, upd \in SleeveUpdates :
        evaluate(p, BaseMargin, BaseVol, upd)

\* A tick on which exposure and margin move.
EvaluateHeadroom ==
    \E p \in HeadroomPortfolios, m \in MarginStates :
        evaluate(p, m, BaseVol, BaseSleeveUpdate)

\* A tick on which the leverage moves.
EvaluateLeverage ==
    \E p \in LeveragePortfolios :
        evaluate(p, BaseMargin, BaseVol, BaseSleeveUpdate)

\* A tick on which the volatility regime moves.
EvaluateVolatility ==
    \E vol \in VolatilityRegimes :
        evaluate(BasePortfolio, BaseMargin, vol, BaseSleeveUpdate)

\* GlobalRiskKernel::apply_cashflow_reset(equity_before, equity_after)
\* Mutant of ResetPeak: the peak follows every cash movement.
ResetPeakAlways(pk, equity_before, equity_after) == equity_after

\* The peak after apply_cashflow_reset.
\* |after - before| / before >= 0.20, cross-multiplied (before > 0).
ResetPeak(pk, equity_before, equity_after) ==
    IF equity_before <= 0
    THEN equity_after
    ELSE IF 100 * Abs(equity_after - equity_before) >= 20 * equity_before
         THEN equity_after
         ELSE pk

apply_cashflow_reset(equity_before, equity_after) ==
    /\ peak' = ResetPeak(peak, equity_before, equity_after)
    /\ cashflow' = [equity_before |-> equity_before, equity_after |-> equity_after]
    /\ kop' = "reset"
    /\ UNCHANGED <<config, sleeves, tick, envelopes>>

\* (equity_before, equity_after): a deposit into a negative and into an
\* empty account, a withdrawal of exactly 20%, one of 10%, and one of
\* everything.
Cashflows ==
    {<<-50000, 800000>>, <<0, 900000>>, <<1000000, 800000>>, <<1000000, 900000>>,
     <<1000000, 0>>}

CashflowReset ==
    \E cf \in Cashflows : apply_cashflow_reset(cf[1], cf[2])

----------------------------------------------------------------------------
(* MacroFuturesSleeve: instruments, configuration, signal pipeline *)

Instruments == {"Mes", "Mnq", "SixE"}

\* The sequences that enumerate set S once each: the orders in which a
\* HashMap with key set S can be iterated.
Orders(S) ==
    {o \in [1..Cardinality(S) -> S] : \A i, j \in 1..Cardinality(S) : o[i] = o[j] => i = j}

\* MacroFuturesSleeveConfig::default().  Weights and carry_weight_6e in
\* percent, scores and clips in hundredths, carry_vol_floor in 1/10000,
\* min_conviction in permille.
DefaultSleeveConfig ==
    [trend_weight_20d |-> 45,
     trend_weight_60d |-> 30,
     trend_weight_120d |-> 15,
     breakout_weight |-> 10,
     trend_score_clip |-> 300,
     carry_score_clip |-> 200,
     carry_vol_floor |-> 2500,
     carry_weight_6e |-> 50,
     effective_score_clip |-> 500,
     min_effective_score |-> 100,
     min_conviction |-> 300]

MIN_BARS == 120

\* 1000 / (1 + exp(-k (x - m))) with k = 1.3, m = 1.3 (the default
\* logistic_k, logistic_m), tabulated at x = 0.0, 0.1, ..., 5.0.
LogisticTable ==
    <<156, 174, 193, 214, 237, 261, 287, 314, 343, 373,
      404, 435, 468, 500, 532, 565, 596, 627, 657, 686,
      713, 739, 763, 786, 807, 826, 844, 861, 875, 889,
      901, 912, 922, 931, 939, 946, 952, 958, 963, 967,
      971, 974, 977, 980, 983, 985, 986, 988, 990, 991, 992>>

\* Conviction (permille) of an effective score (hundredths): the logistic,
\* linear between the tabulated points, clamped to [0, 1].
compute_conviction(effective_score) ==
    LET x == Min(Abs(effective_score), 500)
        k == x \div 10
        lo == LogisticTable[k + 1]
        hi == LogisticTable[Min(k + 2, 51)]
    IN Clamp(lo + ((hi - lo) * (x % 10)) \div 10, 0, 1000)

validate_history(hist) == hist.n_bars >= MIN_BARS

\* The sign checks of validate_features (the is_finite checks have no
\* counterpart: every modelled number is finite).
validate_features(bar) ==
    /\ bar.open > 0 /\ bar.high > 0 /\ bar.low > 0 /\ bar.close > 0
    /\ bar.volume >= 0
    /\ bar.atr_14 > 0 /\ bar.vol_20d > 0 /\ bar.vol_60d > 0 /\ bar.vol_120d > 0
    /\ bar.highest_close_50d > 0 /\ bar.lowest_close_50d > 0
    /\ (bar.fx_carry # <<>> => bar.fx_carry[1].carry_rate_vol_252d > 0)

\* Returns and volatilities in 1/10000; the score in hundredths.
compute_trend_raw(cfg, last) ==
    LET z20 == Trunc(last.ret_20d * 100, last.vol_20d)
        z60 == Trunc(last.ret_60d * 100, last.vol_60d)
        z120 == Trunc(last.ret_120d * 100, last.vol_120d)
        brk == IF last.close > last.highest_close_50d THEN 100
               ELSE IF last.close < last.lowest_close_50d THEN -100
               ELSE 0
        raw == Trunc(cfg.trend_weight_20d * z20 + cfg.trend_weight_60d * z60
                     + cfg.trend_weight_120d * z120 + cfg.breakout_weight * brk, 100)
    IN Clamp(raw, -cfg.trend_score_clip, cfg.trend_score_clip)

compute_carry_raw(cfg, inst, last) ==
    IF inst = "SixE" /\ last.fx_carry # <<>>
    THEN LET denom == Max(last.fx_carry[1].carry_rate_vol_252d, Max(cfg.carry_vol_floor, 1))
             z == Trunc(last.fx_carry[1].carry_rate_annualized * 100, denom)
         IN Clamp(z, -Abs(cfg.carry_score_clip), Abs(cfg.carry_score_clip))
    ELSE 0

\* Macro scalars in percent.
apply_macro(cfg, inst, raw, macros) ==
    LET trend_scalar == IF inst = "SixE"
                        THEN Trunc(macros.risk_on_scalar * macros.usd_scalar, 100)
                        ELSE macros.risk_on_scalar
        carry_scalar == IF inst = "SixE"
                        THEN Trunc(cfg.carry_weight_6e * macros.usd_scalar, 100)
                        ELSE 0
    IN [trend_macro_adjusted |-> Trunc(raw.trend_score * trend_scalar, 100),
        carry_macro_adjusted |-> Trunc(raw.carry_score * carry_scalar, 100)]

compute_effective_score(cfg, inst, macro_adj) ==
    LET eff == macro_adj.trend_macro_adjusted
               + (IF inst = "SixE" THEN macro_adj.carry_macro_adjusted ELSE 0)
    IN Clamp(eff, -Abs(cfg.effective_score_clip), Abs(cfg.effective_score_clip))

\* Mutant of build_final_signal: a signal below the thresholds keeps the
\* direction of its score.
BuildFinalSignalKeepingDirection(cfg, effective_score, conviction) ==
    [final_signal |-> [direction |-> IF effective_score > 0 THEN 1 ELSE -1,
                       conviction |-> conviction,
                       effective_score |-> effective_score],
     reason |-> IF Abs(effective_score) < cfg.min_effective_score
                   \/ conviction < cfg.min_conviction
                THEN "BelowThreshold" ELSE "Normal"]

build_final_signal(cfg, effective_score, conviction) ==
    IF Abs(effective_score) < cfg.min_effective_score \/ conviction < cfg.min_conviction
    THEN [final_signal |-> [direction |-> 0, conviction |-> conviction,
                            effective_score |-> effective_score],
          reason |-> "BelowThreshold"]
    ELSE [final_signal |-> [direction |-> IF effective_score > 0 THEN 1 ELSE -1,
                            conviction |-> conviction,
                            effective_score |-> effective_score],
          reason |-> "Normal"]

flat_signal(inst, reason) ==
    [instrument |-> inst,
     final_signal |-> [direction |-> 0, conviction |-> 0, effective_score |-> 0],
     raw |-> [trend_score |-> 0, carry_score |-> 0],
     macro_adj |-> [trend_macro_adjusted |-> 0, carry_macro_adjusted |-> 0],
     reason |-> reason]

\* Mutant of evaluate_instrument: the last bar is checked before the length
\* of the history.
EvaluateInstrumentFeaturesFirst(cfg, inst, hist, macros) ==
    IF ~validate_features(hist.last) THEN flat_signal(inst, "InvalidData")
    ELSE IF ~validate_history(hist) THEN flat_signal(inst, "InsufficientHistory")
    ELSE LET raw == [trend_score |-> compute_trend_raw(cfg, hist.last),
                     carry_score |-> compute_carry_raw(cfg, inst, hist.last)]
             macro_adj == apply_macro(cfg, inst, raw, macros)
             effective_score == compute_effective_score(cfg, inst, macro_adj)
             built == build_final_signal(cfg, effective_score,
                                         compute_conviction(effective_score))
         IN [instrument |-> inst,
             final_signal |-> built.final_signal,
             raw |-> raw,
             macro_adj |-> macro_adj,
             reason |-> built.reason]

evaluate_instrument(cfg, inst, hist, macros) ==
    IF ~validate_history(hist) THEN flat_signal(inst, "InsufficientHistory")
    ELSE IF ~validate_features(hist.last) THEN flat_signal(inst, "InvalidData")
    ELSE LET raw == [trend_score |-> compute_trend_raw(cfg, hist.last),
                     carry_score |-> compute_carry_raw(cfg, inst, hist.last)]
             macro_adj == apply_macro(cfg, inst, raw, macros)
             effective_score == compute_effective_score(cfg, inst, macro_adj)
             built == build_final_signal(cfg, effective_score,
                                         compute_conviction(effective_score))
         IN [instrument |-> inst,
             final_signal |-> built.final_signal,
             raw |-> raw,
             macro_adj |-> macro_adj,
             reason |-> built.reason]

\* One signal per history, in the iteration order ord of the histories map.
evaluate_signals(cfg, c, ord) ==
    [i \in 1..Len(ord) |->
        evaluate_instrument(cfg, ord[i], c.histories[ord[i]], c.macro_scalars)]

\* desired_risk_frac = direction * conviction, clamped to [-1, 1] (permille).
evaluate_risk_intents(cfg, c, ord) ==
    LET signals == evaluate_signals(cfg, c, ord)
    IN [i \in 1..Len(signals) |->
          [instrument |-> signals[i].instrument,
           desired_risk_frac |->
               Clamp(signals[i].final_signal.direction * signals[i].final_signal.conviction,
                     -1000, 1000),
           signal |-> signals[i]]]

----------------------------------------------------------------------------
(* MacroFuturesSleeve: position and contract planning *)

\* ctx.current_positions.get(&inst).copied().unwrap_or(0)
CurrentPosition(c, inst) ==
    IF inst \in DOMAIN c.current_positions THEN c.current_positions[inst] ELSE 0

\* Instruments with a nonzero current position.
CurrentOpen(c) ==
    Cardinality({i \in DOMAIN c.current_positions : c.current_positions[i] # 0})

\* Mutant of PlanningBlocked: the engine health is not looked at.
PlanningBlockedIgnoringHealth(c) ==
    \/ IsHaltOrKill(c.risk_envelope.portfolio_halt)
    \/ IsHaltOrKill(c.risk_envelope.sleeve_halt)
    \/ c.risk_envelope.max_position_size_usd <= 0
    \/ c.risk_envelope.max_concurrent_positions = 0

\* The early returns of plan_positions: halt, no size, no slot, Degraded.
PlanningBlocked(c) ==
    \/ IsHaltOrKill(c.risk_envelope.portfolio_halt)
    \/ IsHaltOrKill(c.risk_envelope.sleeve_halt)
    \/ c.risk_envelope.max_position_size_usd <= 0
    \/ c.risk_envelope.max_concurrent_positions = 0
    \/ c.engine_health = "Degraded"

\* Mutant of UsedSlotsAtStart: the instruments open now are not counted.
UsedSlotsAtStartZero(current_open, max_slots) == 0

\* used_slots before the walk: the instruments open now, at most max_slots.
UsedSlotsAtStart(current_open, max_slots) == Min(current_open, max_slots)

\* Mutant of SlotAvailable: the concurrency cap is not applied.
SlotAlwaysAvailable(is_new_instrument, used_slots, max_slots) == TRUE

\* A flat instrument opens only while a slot remains.
SlotAvailable(is_new_instrument, used_slots, max_slots) ==
    ~(is_new_instrument /\ used_slots >= max_slots)

\* Mutant of AllowedNotional: the margin pool does not cap the notional.
AllowedNotionalExposureOnly(exposure_remaining, margin_remaining) == exposure_remaining

\* The notional one planned position may take from the two pools.
AllowedNotional(exposure_remaining, margin_remaining) ==
    Min(exposure_remaining, margin_remaining)

\* The filter_map closure of plan_positions over the intents from index i,
\* carrying the captured exposure_remaining, margin_remaining, used_slots.
RECURSIVE PlanWalk(_, _, _, _, _, _)
PlanWalk(c, intents, i, exposure_remaining, margin_remaining, used_slots) ==
    IF i > Len(intents) THEN <<>>
    ELSE
      LET intent == intents[i]
          env == c.risk_envelope
          dir == intent.signal.final_signal.direction
          conv == intent.signal.final_signal.conviction
          frac == intent.desired_risk_frac
          skip == PlanWalk(c, intents, i + 1, exposure_remaining, margin_remaining,
                           used_slots)
          is_new_instrument == CurrentPosition(c, intent.instrument) = 0
          wanted == Trunc(frac * env.max_position_size_usd, 1000)
          allowed_notional == AllowedNotional(exposure_remaining, margin_remaining)
          abs_target == IF Abs(wanted) > allowed_notional
                        THEN allowed_notional ELSE Abs(wanted)
          target_notional == IF wanted < 0 THEN -abs_target ELSE abs_target
      IN IF dir = 0 \/ conv <= 0 \/ frac = 0 THEN skip
         ELSE IF exposure_remaining <= 0 \/ margin_remaining <= 0 THEN skip
         ELSE IF ~SlotAvailable(is_new_instrument, used_slots, env.max_concurrent_positions)
              THEN skip
         ELSE IF Abs(wanted) < 100 THEN skip
         ELSE IF allowed_notional <= 0 THEN skip
         ELSE IF abs_target < 100 THEN skip
         ELSE <<[instrument |-> intent.instrument,
                 target_direction |-> dir,
                 target_notional_usd |-> target_notional]>>
              \o PlanWalk(c, intents, i + 1,
                          Max(exposure_remaining - abs_target, 0),
                          Max(margin_remaining - abs_target, 0),
                          IF is_new_instrument THEN used_slots + 1 ELSE used_slots)

plan_positions(cfg, c, ord) ==
    IF PlanningBlocked(c) THEN <<>>
    ELSE PlanWalk(c, evaluate_risk_intents(cfg, c, ord), 1,
                  Max(c.risk_envelope.exposure_remaining_usd, 0),
                  Max(c.risk_envelope.margin_remaining_usd, 0),
                  UsedSlotsAtStart(CurrentOpen(c), c.risk_envelope.max_concurrent_positions))

InstBudget(b, inst) ==
    IF inst = "Mes" THEN b.mes ELSE IF inst = "Mnq" THEN b.mnq ELSE b.sixe

\* Mutant of AbsContracts: the sleeve-wide contract budget is not applied.
AbsContractsWithoutTotal(inst_max_contracts, abs_target, base, remaining_total) ==
    LET capped == Min(abs_target, base)
        rounded == (2 * inst_max_contracts * capped + base) \div (2 * base)
        raw == IF rounded <= 0 THEN 1 ELSE rounded
    IN Min(raw, inst_max_contracts)

\* (inst_max_contracts * abs_frac).round(), at least 1, capped by the
\* instrument's and the sleeve's contract budgets.
\* abs_frac = clamp(|target| / base, 0, 1); round is half away from zero.
AbsContracts(inst_max_contracts, abs_target, base, remaining_total) ==
    LET capped == Min(abs_target, base)
        rounded == (2 * inst_max_contracts * capped + base) \div (2 * base)
        raw == IF rounded <= 0 THEN 1 ELSE rounded
    IN Min(Min(raw, inst_max_contracts), Max(remaining_total, 0))

\* Mutant of RiskPerContractEur: the risk budget is not spread over the
\* contract budget.
RiskPerContractUndivided(inst_budget) ==
    IF inst_budget.max_contracts > 0
    THEN inst_budget.max_risk_per_position_eur
    ELSE 0

\* EUR risk of one contract: the instrument's risk budget spread over its
\* contract budget.
RiskPerContractEur(inst_budget) ==
    IF inst_budget.max_contracts > 0
    THEN Trunc(inst_budget.max_risk_per_position_eur, inst_budget.max_contracts)
    ELSE 0

\* The for loop of plan_contracts_with_risk_internal from index i.
RECURSIVE ContractWalk(_, _, _, _, _)
ContractWalk(c, b, planned, i, remaining_total) ==
    IF i > Len(planned) \/ remaining_total <= 0 THEN <<>>
    ELSE
      LET p == planned[i]
          inst_budget == InstBudget(b, p.instrument)
          skip == ContractWalk(c, b, planned, i + 1, remaining_total)
          abs_contracts == AbsContracts(inst_budget.max_contracts,
                                        Abs(p.target_notional_usd),
                                        c.risk_envelope.max_position_size_usd,
                                        remaining_total)
          risk_per_contract_eur == RiskPerContractEur(inst_budget)
      IN IF inst_budget.max_contracts <= 0 THEN skip
         ELSE IF p.target_notional_usd = 0 THEN skip
         ELSE IF p.target_direction = 0 THEN skip
         ELSE IF abs_contracts <= 0 THEN skip
         ELSE IF risk_per_contract_eur <= 0 THEN skip
         ELSE <<[instrument |-> p.instrument,
                 target_contracts |-> p.target_direction * abs_contracts,
                 risk_per_contract_eur |-> risk_per_contract_eur,
                 total_risk_eur |-> risk_per_contract_eur * abs_contracts]>>
              \o ContractWalk(c, b, planned, i + 1, remaining_total - abs_contracts)

plan_contracts_with_risk_internal(cfg, c, b, ord) ==
    IF c.risk_envelope.max_position_size_usd <= 0 THEN <<>>
    ELSE ContractWalk(c, b, plan_positions(cfg, c, ord), 1, b.max_total_contracts)

plan_contracts(cfg, c, b, ord) ==
    LET both == plan_contracts_with_risk_internal(cfg, c, b, ord)
    IN [i \in 1..Len(both) |->
          [instrument |-> both[i].instrument,
           target_contracts |-> both[i].target_contracts]]

plan_risk_report(cfg, c, b, ord) == plan_contracts_with_risk_internal(cfg, c, b, ord)

\* USD reconstructed from the EUR risk of one report entry.
ReconstructedNotionalUsd(c, r) == Trunc(r.total_risk_eur * 100, c.eur_per_usd)

aggregate_sleeve_risk(cfg, c, b, ord) ==
    LET report == plan_risk_report(cfg, c, b, ord)
        live == SelectSeq(report, LAMBDA r : r.target_contracts # 0)
    IN [total_contracts_signed |->
            SumSeq([i \in 1..Len(live) |-> live[i].target_contracts]),
        total_contracts_abs |->
            SumSeq([i \in 1..Len(live) |-> Abs(live[i].target_contracts)]),
        total_risk_eur |-> SumSeq([i \in 1..Len(live) |-> live[i].total_risk_eur]),
        total_notional_usd |->
            SumSeq([i \in 1..Len(live) |-> ReconstructedNotionalUsd(c, live[i])]),
        instrument_count |-> Len(live)]

\* The f64 cap max_sleeve_risk_eur: a finite amount in 1/100 EUR, or one of
\* the non-finite values.
Finite(v) == [class |-> "finite", value |-> v]

NonFiniteCaps == {[class |-> k, value |-> 0] : k \in {"nan", "inf", "neg_inf"}}

is_finite(x) == x.class = "finite"

\* Mutant of check_sleeve_risk_sanity: the cap is never applied.
SanityIgnoringCap(cfg, c, b, ord, max_sleeve_risk_eur) == "Ok"

\* A cap that is not finite or <= 0 stands for "no cap".
check_sleeve_risk_sanity(cfg, c, b, ord, max_sleeve_risk_eur) ==
    IF ~is_finite(max_sleeve_risk_eur) \/ max_sleeve_risk_eur.value <= 0 THEN "Ok"
    ELSE IF aggregate_sleeve_risk(cfg, c, b, ord).total_risk_eur
               > max_sleeve_risk_eur.value
         THEN "ExceedsCap"
         ELSE "Ok"

\* Mutant of FlattenDelta: the sign of the closing delta is lost.
FlattenDeltaUnsigned(current) == current

\* The flatten delta of a held instrument without a target.
FlattenDelta(current) == -current

\* Mutant of plan_order_intents: a held instrument is closed only when it has
\* no planned position, whether or not it received contracts.
PlanOrderIntentsByPositions(cfg, c, b, ord, pord) ==
    LET planned_contracts == plan_contracts(cfg, c, b, ord)
        planned == plan_positions(cfg, c, ord)
        targeted == {planned[i].instrument : i \in 1..Len(planned)}
        deltas == [i \in 1..Len(planned_contracts) |->
                     [instrument |-> planned_contracts[i].instrument,
                      delta_contracts |->
                          planned_contracts[i].target_contracts
                          - CurrentPosition(c, planned_contracts[i].instrument)]]
        closes == [i \in 1..Len(pord) |->
                     [instrument |-> pord[i],
                      delta_contracts |-> FlattenDelta(c.current_positions[pord[i]])]]
    IN SelectSeq(deltas, LAMBDA d : d.delta_contracts # 0)
       \o SelectSeq(closes, LAMBDA d : c.current_positions[d.instrument] # 0
                                       /\ d.instrument \notin targeted)

\* pord is the iteration order of the current_positions map.
plan_order_intents(cfg, c, b, ord, pord) ==
    LET planned_contracts == plan_contracts(cfg, c, b, ord)
        targeted == {planned_contracts[i].instrument : i \in 1..Len(planned_contracts)}
        deltas == [i \in 1..Len(planned_contracts) |->
                     [instrument |-> planned_contracts[i].instrument,
                      delta_contracts |->
                          planned_contracts[i].target_contracts
                          - CurrentPosition(c, planned_contracts[i].instrument)]]
        closes == [i \in 1..Len(pord) |->
                     [instrument |-> pord[i],
                      delta_contracts |-> FlattenDelta(c.current_positions[pord[i]])]]
    IN SelectSeq(deltas, LAMBDA d : d.delta_contracts # 0)
       \o SelectSeq(closes, LAMBDA d : c.current_positions[d.instrument] # 0
                                       /\ d.instrument \notin targeted)

\* Mutant of plan_sleeve: the risk report is that of an unlimited budget
\* walk, so it can list what the planned contracts do not.
PlanSleeveReportOfPositions(cfg, c, b, max_sleeve_risk_eur, ord) ==
    [planned_contracts |-> plan_contracts(cfg, c, b, ord),
     risk_report |-> ContractWalk(c, b, plan_positions(cfg, c, ord), 1,
                                  3 * b.max_total_contracts),
     aggregate |-> aggregate_sleeve_risk(cfg, c, b, ord),
     sanity |-> check_sleeve_risk_sanity(cfg, c, b, ord, max_sleeve_risk_eur)]

\* plan_sleeve: the four planning calls over one context, each of which
\* iterates the same histories map.
plan_sleeve(cfg, c, b, max_sleeve_risk_eur, ord) ==
    [planned_contracts |-> plan_contracts(cfg, c, b, ord),
     risk_report |-> plan_risk_report(cfg, c, b, ord),
     aggregate |-> aggregate_sleeve_risk(cfg, c, b, ord),
     sanity |-> check_sleeve_risk_sanity(cfg, c, b, ord, max_sleeve_risk_eur)]

\* run_heartbeat: plan_sleeve and plan_order_intents over one context.  The
\* planned positions behind the plan are kept beside it.
run_heartbeat(cfg, c, b, max_sleeve_risk_eur, ord, pord) ==
    plan_sleeve(cfg, c, b, max_sleeve_risk_eur, ord)
       @@ [planned_positions |-> plan_positions(cfg, c, ord),
           order_intents |-> plan_order_intents(cfg, c, b, ord, pord)]

\* instrument_metadata: the static symbol and venue of an instrument.
instrument_metadata(inst) ==
    IF inst = "Mes" THEN <<"MES", "CME">>
    ELSE IF inst = "Mnq" THEN <<"MNQ", "CME">>
    ELSE <<"6E", "CME">>

\* Mutant of OrderSide: every order buys.
OrderSideAlwaysBuy(delta) == "Buy"

\* The side of an order with a nonzero delta.
OrderSide(delta) == IF delta > 0 THEN "Buy" ELSE "Sell"

\* map_heartbeat_to_engine_orders(sleeve_id, hb) over hb.order_intents.
map_heartbeat_to_engine_orders(sleeve_id, order_intents) ==
    LET kept == SelectSeq(order_intents,
                          LAMBDA oi : oi.delta_contracts # 0 /\ Abs(oi.delta_contracts) > 0)
    IN [i \in 1..Len(kept) |->
          [sleeve_id |-> sleeve_id,
           instrument |-> kept[i].instrument,
           symbol |-> instrument_metadata(kept[i].instrument)[1],
           venue |-> instrument_metadata(kept[i].instrument)[2],
           side |-> OrderSide(kept[i].delta_contracts),
           quantity |-> Abs(kept[i].delta_contracts)]]

----------------------------------------------------------------------------
(* MacroFuturesSleeve: the contexts of a heartbeat *)

\* Largest max_concurrent_positions an envelope carries.
MaxSlots == 2

\* The last bar of an uptrending history at the given close (cents):
\* every z-score is far above the clip, no breakout.
UpBar(price) ==
    [open |-> price, high |-> price + 1, low |-> price - 1, close |-> price,
     volume |-> 1000, atr_14 |-> 50,
     ret_20d |-> 500, ret_60d |-> 1000, ret_120d |-> 2000,
     vol_20d |-> 100, vol_60d |-> 120, vol_120d |-> 150,
     highest_close_50d |-> price + 100, lowest_close_50d |-> price - 300,
     fx_carry |-> <<>>]

\* A downtrend of two volatilities that closes below the 50-day low.
DownBar(price) ==
    [UpBar(price) EXCEPT !.ret_20d = -200, !.ret_60d = -240, !.ret_120d = -300,
                         !.lowest_close_50d = price + 50,
                         !.highest_close_50d = price + 400]

\* A drift of half a volatility: below min_effective_score.
WeakBar(price) ==
    [UpBar(price) EXCEPT !.ret_20d = 50, !.ret_60d = 60, !.ret_120d = 75]

HistUp == [n_bars |-> 130, last |-> UpBar(10000)]
HistDown == [n_bars |-> 130, last |-> DownBar(10000)]
HistWeak == [n_bars |-> 130, last |-> WeakBar(10000)]
HistShort == [n_bars |-> 119, last |-> UpBar(10000)]
\* An uptrending EUR/USD bar at 1.10 with its 50-day range around it.
FxBar ==
    [UpBar(110) EXCEPT !.highest_close_50d = 115, !.lowest_close_50d = 100]

HistInvalid == [n_bars |-> 130, last |-> [FxBar EXCEPT !.atr_14 = 0]]
HistUpFx ==
    [n_bars |-> 130,
     last |-> [FxBar EXCEPT !.fx_carry = <<[carry_rate_annualized |-> 200,
                                            carry_rate_vol_252d |-> 100]>>]]

HistoryChoices(inst) ==
    IF inst = "Mes" THEN {HistUp, HistWeak}
    ELSE IF inst = "Mnq" THEN {HistDown, HistShort}
    ELSE {HistUpFx, HistInvalid}

\* The histories maps: any subset of the instruments, each with one of its
\* histories.
HistoryMaps ==
    UNION {{h \in [D -> {HistUp, HistWeak, HistDown, HistShort, HistUpFx, HistInvalid}] :
               \A i \in D : h[i] \in HistoryChoices(i)} : D \in SUBSET Instruments}

PositionChoices(inst) ==
    IF inst = "Mes" THEN {0, 2} ELSE IF inst = "Mnq" THEN {-1} ELSE {1}

\* The current_positions maps: any subset of the instruments; MES also with
\* an explicit zero entry.
PositionMaps ==
    UNION {{q \in [D -> {-1, 0, 1, 2}] : \A i \in D : q[i] \in PositionChoices(i)} :
              D \in SUBSET Instruments}

NeutralMacro == [risk_on_scalar |-> 100, usd_scalar |-> 100]

\* (exposure_remaining_usd, margin_remaining_usd): no exposure left, margin
\* binding at $600, $20 of exposure, $900.50 in both pools, $1,300 of
\* exposure, and ample headroom.
HeadroomPairs ==
    {<<0, 60000>>, <<100000, 60000>>, <<2000, 100000>>, <<90050, 90050>>,
     <<130000, 1000000>>, <<1000000, 1000000>>}

EnvelopeWith(portfolio_halt, sleeve_halt, max_position_size_usd, slots, headroom) ==
    [sleeve_id |-> "MicroFuturesMacroTrend",
     sleeve_halt |-> sleeve_halt,
     portfolio_halt |-> portfolio_halt,
     max_position_size_usd |-> max_position_size_usd,
     max_concurrent_positions |-> slots,
     exposure_remaining_usd |-> headroom[1],
     margin_remaining_usd |-> headroom[2],
     volatility_regime_scalar |-> 100,
     leverage_scalar |-> 10000,
     portfolio_risk_state |->
         IF portfolio_halt = "Kill" THEN "Stress"
         ELSE IF portfolio_halt = "Halt" THEN "Caution" ELSE "Normal"]

\* Envelopes without a halt: a $1,000 position size under every headroom
\* pair, a $1.50 size or no size under ample headroom, and no slot at all.
SizingEnvelopes ==
    {EnvelopeWith("None", "None", 100000, n, h) : n \in 1..MaxSlots, h \in HeadroomPairs}
    \cup {EnvelopeWith("None", "None", 150, n, <<1000000, 1000000>>) : n \in 1..MaxSlots}
    \cup {EnvelopeWith("None", "None", 0, MaxSlots, <<1000000, 1000000>>),
          EnvelopeWith("None", "None", 100000, 0, <<1000000, 1000000>>)}

\* Envelopes with a halt, as the kernel zeroes them (Halt, Kill) or not.
HaltedEnvelopes ==
    {EnvelopeWith(ph, sh, sz, MaxSlots, <<1000000, 1000000>>) :
        ph \in HaltStates, sh \in HaltStates, sz \in {0, 100000}}
    \ {EnvelopeWith("None", "None", sz, MaxSlots, <<1000000, 1000000>>) : sz \in {0, 100000}}

\* FuturesRiskBudget v1: 90 / 90 / 60 EUR over 3 contracts each, 3 in total.
BudgetV1 ==
    [mes |-> [max_risk_per_position_eur |-> 9000, max_contracts |-> 3],
     mnq |-> [max_risk_per_position_eur |-> 9000, max_contracts |-> 3],
     sixe |-> [max_risk_per_position_eur |-> 6000, max_contracts |-> 3],
     max_total_contracts |-> 3]

\* 10 contracts per instrument and 20 in total, with 50 EUR of risk for MES
\* and 10,000 EUR for the others.
BudgetTightMes ==
    [mes |-> [max_risk_per_position_eur |-> 5000, max_contracts |-> 10],
     mnq |-> [max_risk_per_position_eur |-> 1000000, max_contracts |-> 10],
     sixe |-> [max_risk_per_position_eur |-> 1000000, max_contracts |-> 10],
     max_total_contracts |-> 20]

\* 100 contracts per instrument and in total, with 5,000 EUR of risk for MES
\* and 10,000 EUR for the others.
BudgetRiskCapped ==
    [mes |-> [max_risk_per_position_eur |-> 500000, max_contracts |-> 100],
     mnq |-> [max_risk_per_position_eur |-> 1000000, max_contracts |-> 100],
     sixe |-> [max_risk_per_position_eur |-> 1000000, max_contracts |-> 100],
     max_total_contracts |-> 100]

\* (budget, eur_per_usd, max_sleeve_risk_eur)
SizingInputs ==
    {<<BudgetV1, 92, Finite(0)>>, <<BudgetV1, 50, Finite(5000)>>,
     <<BudgetTightMes, 92, Finite(400000)>>}
    \cup {<<BudgetRiskCapped, 50, x>> : x \in NonFiniteCaps}

ContextOf(h, q, env, fx, health) ==
    [histories |-> h,
     macro_scalars |-> NeutralMacro,
     risk_envelope |-> env,
     current_positions |-> q,
     eur_per_usd |-> fx,
     engine_health |-> health]

\* A Healthy engine under an envelope without halt.
PlanningContext ==
    \E h \in HistoryMaps, q \in PositionMaps, env \in SizingEnvelopes, x \in SizingInputs :
        /\ ctx = ContextOf(h, q, env, x[2], "Healthy")
        /\ budget = x[1]
        /\ cap = x[3]

\* Every instrument with a tradable signal.
TradableHistories ==
    [i \in Instruments |->
        IF i = "Mes" THEN HistUp ELSE IF i = "Mnq" THEN HistDown ELSE HistUpFx]

\* A halted envelope, or a Degraded engine.
BlockedContext ==
    \E h \in {TradableHistories, <<>>}, q \in PositionMaps,
       env \in HaltedEnvelopes \cup {EnvelopeWith("None", "None", 100000, MaxSlots,
                                                  <<1000000, 1000000>>)},
       health \in {"Healthy", "Degraded"} :
        /\ IsHaltOrKill(env.portfolio_halt) \/ IsHaltOrKill(env.sleeve_halt)
           \/ health = "Degraded"
        /\ ctx = ContextOf(h, q, env, 92, health)
        /\ budget = BudgetV1
        /\ cap = Finite(-100)

NoHeartbeat == <<>>

\* MacroFuturesSleeve::run_heartbeat over the context, the maps iterated in
\* some order.
RunHeartbeat ==
    /\ spc = "ready"
    /\ \E ord \in Orders(DOMAIN ctx.histories), pord \in Orders(DOMAIN ctx.current_positions) :
          hb' = run_heartbeat(DefaultSleeveConfig, ctx, budget, cap, ord, pord)
    /\ spc' = "done"
    /\ UNCHANGED <<ctx, budget, cap>>

----------------------------------------------------------------------------
(* Specifications *)

SleeveIdle ==
    /\ ctx = <<>>
    /\ budget = <<>>
    /\ cap = Finite(0)
    /\ hb = <<>>
    /\ spc = "idle"

NoOrders == <<>>

NoDecision == <<>>

\* No order mapped, no decision taken, no supervisor, empty sinks.
ExecutionIdle ==
    /\ engine_orders = NoOrders
    /\ decision = NoDecision
    /\ supervisor = <<>>
    /\ sink = <<>>
    /\ log = <<>>
    /\ now_ts = <<>>
    /\ batching = <<>>

InitKernel == KernelNew /\ SleeveIdle /\ ExecutionIdle

NextKernel ==
    \/ EvaluateEquity /\ UNCHANGED <<svars, xvars>>
    \/ EvaluateSleeves /\ UNCHANGED <<svars, xvars>>
    \/ EvaluateHeadroom /\ UNCHANGED <<svars, xvars>>
    \/ EvaluateLeverage /\ UNCHANGED <<svars, xvars>>
    \/ EvaluateVolatility /\ UNCHANGED <<svars, xvars>>
    \/ CashflowReset /\ UNCHANGED <<svars, xvars>>

SpecKernel == InitKernel /\ [][NextKernel]_vars

KernelIdle == KernelNew

InitSleeve ==
    /\ KernelIdle
    /\ PlanningContext \/ BlockedContext
    /\ hb = NoHeartbeat
    /\ spc = "ready"
    /\ ExecutionIdle

NextSleeve == RunHeartbeat /\ UNCHANGED <<kvars, xvars>>

SpecSleeve == InitSleeve /\ [][NextSleeve]_vars

----------------------------------------------------------------------------
(* The risk decision over a sleeve state and its envelope (SpecDecision) *)

\* Headroom amounts of an envelope given to the decision.
DecisionHeadrooms == {-500, 0, 60000}

\* The sleeve state and the envelope given to evaluate_new_position_risk.
DecisionInputs ==
    /\ \E open \in 0..MaxOpen :
          sleeves = <<[sleeve_id |-> "MicroFuturesMacroTrend",
                       equity_usd |-> 200000,
                       peak_equity_usd |-> 200000,
                       open_positions |-> open]>>
    /\ \E ph \in HaltStates, sh \in HaltStates, size \in {0, 100000},
          slots \in 0..MaxSlots, e \in DecisionHeadrooms, m \in DecisionHeadrooms :
          envelopes = <<EnvelopeWith(ph, sh, size, slots, <<e, m>>)>>

\* evaluate_new_position_risk(&sleeve_state, &env)
EvaluateNewPositionRisk ==
    /\ decision = NoDecision
    /\ decision' = evaluate_new_position_risk(sleeves[1], envelopes[1])
    /\ UNCHANGED <<kvars, svars, engine_orders, supervisor, sink, log, now_ts, batching>>

InitDecision ==
    /\ config = KernelConfig
    /\ peak = KernelConfig.portfolio.initial_equity_usd
    /\ tick = NoTick
    /\ kop = "evaluate"
    /\ cashflow = NoCashflow
    /\ DecisionInputs
    /\ SleeveIdle
    /\ ExecutionIdle

NextDecision == EvaluateNewPositionRisk

SpecDecision == InitDecision /\ [][NextDecision]_vars

----------------------------------------------------------------------------
(* The engine heartbeat with its supervisor (SpecEngine) *)

\* max_gap_seconds of the supervisor, for heartbeats once a minute.
MaxGapSeconds == 65

\* Seconds between two ticks: on time, and one heartbeat missed.
TickGaps == {60, 120}

\* The last timestamp at which a heartbeat is run.
MaxClock == 120

\* HeartbeatSupervisor::new(max_gap_seconds); last_tick_ts is <<>> for None
\* and <<ts>> for Some(ts).
SupervisorNew(max_gap_seconds) ==
    [last_tick_ts |-> <<>>, max_gap_seconds |-> max_gap_seconds, health |-> "Healthy"]

\* Mutant of register_tick: a gap of exactly max_gap_seconds degrades too.
RegisterTickGapInclusive(sup, ts_utc) ==
    IF sup.last_tick_ts = <<>>
    THEN [sup EXCEPT !.last_tick_ts = <<ts_utc>>, !.health = "Healthy"]
    ELSE [sup EXCEPT !.health = IF ts_utc - sup.last_tick_ts[1] >= sup.max_gap_seconds
                                THEN "Degraded" ELSE "Healthy",
                     !.last_tick_ts = <<ts_utc>>]

\* HeartbeatSupervisor::register_tick
register_tick(sup, ts_utc) ==
    IF sup.last_tick_ts = <<>>
    THEN [sup EXCEPT !.last_tick_ts = <<ts_utc>>, !.health = "Healthy"]
    ELSE [sup EXCEPT !.health = IF ts_utc - sup.last_tick_ts[1] > sup.max_gap_seconds
                                THEN "Degraded" ELSE "Healthy",
                     !.last_tick_ts = <<ts_utc>>]

\* HeartbeatSupervisorEvent, as logged.
SupervisorEvent(ts_utc, status) ==
    [ts_utc |-> ts_utc, status |-> status, msg |-> "heartbeat_gap_detected"]

\* HeartbeatLogEvent::from_engine_result
HeartbeatLogEvent(ts_utc, env, heartbeat, orders, health) ==
    [ts_utc |-> ts_utc,
     sleeve_id |-> env.sleeve_id,
     portfolio_risk_state |-> env.portfolio_risk_state,
     engine_health |-> health,
     max_position_size_usd |-> env.max_position_size_usd,
     exposure_remaining_usd |-> env.exposure_remaining_usd,
     margin_remaining_usd |-> env.margin_remaining_usd,
     total_risk_eur |-> heartbeat.aggregate.total_risk_eur,
     sanity |-> heartbeat.sanity,
     orders |-> orders]

\* Mutant of LinesOfTick: the supervisor event is not logged.
LinesOfTickWithoutEvent(ts_utc, health, env, heartbeat, orders) ==
    <<HeartbeatLogEvent(ts_utc, env, heartbeat, orders, health)>>

\* The lines run_macro_futures_engine_heartbeat_with_logging gives to the
\* heartbeat log sink: the supervisor event of a Degraded tick, then the
\* heartbeat of the tick.
LinesOfTick(ts_utc, health, env, heartbeat, orders) ==
    (IF health = "Degraded" THEN <<SupervisorEvent(ts_utc, health)>> ELSE <<>>)
       \o <<HeartbeatLogEvent(ts_utc, env, heartbeat, orders, health)>>

\* Mutant of InMemorySubmit: the sink keeps the last order only.
InMemorySubmitKeepsLast(held, order) == <<order>>

\* InMemoryOrderSink::submit: the order is pushed behind those held.
InMemorySubmit(held, order) == Append(held, order)

\* for order in &engine_orders { sink.submit(order) }, from index i.
RECURSIVE SubmitEach(_, _, _)
SubmitEach(held, orders, i) ==
    IF i > Len(orders) THEN held
    ELSE SubmitEach(InMemorySubmit(held, orders[i]), orders, i + 1)

\* The portfolio of a tick: at its peak, and 10% below it (Halt).
EnginePortfolios == {BasePortfolio, [BasePortfolio EXCEPT !.open_pnl_usd = -100000]}

EngineHistories == {[i \in {"Mes"} |-> HistUp],
                    [i \in {"Mes", "Mnq"} |-> IF i = "Mes" THEN HistUp ELSE HistDown]}

EnginePositions == {[i \in {} |-> 0], [i \in {"Mes"} |-> 2], [i \in {"Mnq"} |-> -1]}

\* The envelope of the micro-futures sleeve among those evaluate returned.
MacroFuturesEnvelope(envs) ==
    envs[CHOOSE i \in 1..Len(envs) : envs[i].sleeve_id = "MicroFuturesMacroTrend"]

\* run_macro_futures_engine_heartbeat_with_logging: the supervisor registers
\* the tick and a Degraded health is logged; then
\* run_macro_futures_engine_heartbeat evaluates the kernel over the one
\* sleeve state, builds the context, runs the sleeve heartbeat, maps it to
\* engine orders and submits each to the sink; then the heartbeat is logged.
EngineHeartbeatWithLogging ==
    \E gap \in TickGaps, p \in EnginePortfolios, h \in EngineHistories,
       q \in EnginePositions :
        LET ts == IF supervisor.last_tick_ts = <<>> THEN 0
                      ELSE supervisor.last_tick_ts[1] + gap
            sup == register_tick(supervisor, ts)
        IN /\ ts <= MaxClock
           /\ now_ts' = <<ts>>
           /\ supervisor' = sup
           /\ evaluate(p, BaseMargin, BaseVol,
                       <<[equity_usd |-> 200000, open_positions |-> 0]>>)
           /\ ctx' = ContextOf(h, q, MacroFuturesEnvelope(envelopes'), 92, "Healthy")
           /\ budget' = BudgetV1
           /\ cap' = Finite(0)
           /\ \E ord \in Orders(DOMAIN h), pord \in Orders(DOMAIN q) :
                 hb' = run_heartbeat(DefaultSleeveConfig, ctx', BudgetV1, Finite(0),
                                     ord, pord)
           /\ engine_orders' =
                 [sleeve_id |-> "MicroFuturesMacroTrend",
                  orders |-> map_heartbeat_to_engine_orders("MicroFuturesMacroTrend",
                                                            hb'.order_intents)]
           /\ sink' = SubmitEach(sink, engine_orders'.orders, 1)
           /\ log' = log \o LinesOfTick(ts, sup.health, MacroFuturesEnvelope(envelopes'),
                                         hb', engine_orders'.orders)
           /\ spc' = "mapped"
           /\ UNCHANGED <<decision, batching>>

InitEngine ==
    /\ config = KernelConfig
    /\ peak = KernelConfig.portfolio.initial_equity_usd
    /\ sleeves = <<[sleeve_id |-> "MicroFuturesMacroTrend",
                    equity_usd |-> 200000,
                    realized_pnl_usd |-> 0,
                    unrealized_pnl_usd |-> 0,
                    peak_equity_usd |-> 200000,
                    open_positions |-> 0]>>
    /\ tick = NoTick
    /\ envelopes = <<>>
    /\ kop = "new"
    /\ cashflow = NoCashflow
    /\ SleeveIdle
    /\ engine_orders = NoOrders
    /\ decision = NoDecision
    /\ supervisor = SupervisorNew(MaxGapSeconds)
    /\ sink = <<>>
    /\ log = <<>>
    /\ now_ts = <<>>
    /\ batching = <<>>

NextEngine == EngineHeartbeatWithLogging

SpecEngine == InitEngine /\ [][NextEngine]_vars

----------------------------------------------------------------------------
(* The heartbeat supervisor on its own (SpecSupervisor) *)

\* The last timestamp registered with the supervisor.
MaxSupervisorClock == 150

\* Seconds from one tick to the next: a clock set back, one second, and the
\* gaps around the two limits.
SupervisorGaps == {-5, 1, 30, 31, 60, 65, 66, 120}

\* supervisor.register_tick(ts_utc)
RegisterTick ==
    \E gap \in SupervisorGaps :
        LET ts == IF supervisor.last_tick_ts = <<>> THEN 0
                  ELSE supervisor.last_tick_ts[1] + gap
        IN /\ ts >= 0
           /\ ts <= MaxSupervisorClock
           /\ supervisor' = register_tick(supervisor, ts)
           /\ now_ts' = <<ts>>
           /\ UNCHANGED <<kvars, svars, engine_orders, decision, sink, log, batching>>

InitSupervisor ==
    /\ KernelIdle
    /\ SleeveIdle
    /\ engine_orders = NoOrders
    /\ decision = NoDecision
    /\ \E max_gap_seconds \in {30, MaxGapSeconds} :
          supervisor = SupervisorNew(max_gap_seconds)
    /\ sink = <<>>
    /\ log = <<>>
    /\ now_ts = <<>>
    /\ batching = <<>>

NextSupervisor == RegisterTick

SpecSupervisor == InitSupervisor /\ [][NextSupervisor]_vars

----------------------------------------------------------------------------
(* The batching heartbeat logger over an inner sink (SpecBatching) *)

\* Lines logged through the batching logger in one run.
MaxLines == 5

\* Largest capacity of a batching logger.
MaxCapacity == 3

\* The JSON lines given to the logger.
LogLines == {"{a:1}", "{b:2}"}

\* BatchingHeartbeatLogger::new(inner, capacity), capacity > 0 asserted.
BatchingNew(capacity) == [buffer |-> <<>>, capacity |-> capacity]

\* flush_inner: the buffer is drained into the inner sink, front first.
flush_inner(bl, inner) ==
    [batching |-> [bl EXCEPT !.buffer = <<>>], inner |-> inner \o bl.buffer]

\* Mutant of BatchingLog: the buffer is flushed only beyond its capacity.
BatchingLogFlushesLate(bl, inner, line) ==
    IF Len(bl.buffer) + 1 > bl.capacity
    THEN flush_inner([bl EXCEPT !.buffer = Append(@, line)], inner)
    ELSE [batching |-> [bl EXCEPT !.buffer = Append(@, line)], inner |-> inner]

\* BatchingHeartbeatLogger::log
BatchingLog(bl, inner, line) ==
    IF Len(bl.buffer) + 1 >= bl.capacity
    THEN flush_inner([bl EXCEPT !.buffer = Append(@, line)], inner)
    ELSE [batching |-> [bl EXCEPT !.buffer = Append(@, line)], inner |-> inner]

\* BatchingHeartbeatLogger::flush
BatchingFlush(bl, inner) ==
    IF bl.buffer # <<>> THEN flush_inner(bl, inner)
    ELSE [batching |-> bl, inner |-> inner]

\* logger.log(line)
LogLine ==
    /\ Len(log) + Len(batching.buffer) < MaxLines
    /\ \E line \in LogLines :
          /\ batching' = BatchingLog(batching, log, line).batching
          /\ log' = BatchingLog(batching, log, line).inner
    /\ UNCHANGED <<kvars, svars, engine_orders, decision, supervisor, sink, now_ts>>

\* logger.flush()
Flush ==
    /\ batching' = BatchingFlush(batching, log).batching
    /\ log' = BatchingFlush(batching, log).inner
    /\ UNCHANGED <<kvars, svars, engine_orders, decision, supervisor, sink, now_ts>>

InitBatching ==
    /\ KernelIdle
    /\ SleeveIdle
    /\ engine_orders = NoOrders
    /\ decision = NoDecision
    /\ supervisor = <<>>
    /\ sink = <<>>
    /\ log = <<>>
    /\ now_ts = <<>>
    /\ \E capacity \in 1..MaxCapacity : batching = BatchingNew(capacity)

NextBatching == LogLine \/ Flush

SpecBatching == InitBatching /\ [][NextBatching]_vars

----------------------------------------------------------------------------
(* Order mapping over heartbeat outputs (SpecOrders) *)

SleeveIds == {"MicroFuturesMacroTrend", "OptionsVolPremium"}

\* Largest number of order intents in a heartbeat output given to the
\* mapping.
MaxIntents == 2

Deltas == {-2, -1, 0, 1, 3}

\* FuturesOrderIntent values and the sequences of at most MaxIntents of them.
OrderIntents == [instrument : Instruments, delta_contracts : Deltas]

IntentSeqs == UNION {[1..n -> OrderIntents] : n \in 0..MaxIntents}

\* A heartbeat output that carries the given order intents and an empty plan.
HeartbeatWith(order_intents) ==
    [planned_positions |-> <<>>,
     planned_contracts |-> <<>>,
     risk_report |-> <<>>,
     aggregate |-> [total_contracts_signed |-> 0, total_contracts_abs |-> 0,
                    total_risk_eur |-> 0, total_notional_usd |-> 0,
                    instrument_count |-> 0],
     sanity |-> "Ok",
     order_intents |-> order_intents]

\* sleeve.map_heartbeat_to_engine_orders(sleeve_id, &hb)
MapOrders ==
    /\ spc = "done"
    /\ \E sleeve_id \in SleeveIds :
          engine_orders' = [sleeve_id |-> sleeve_id,
                            orders |-> map_heartbeat_to_engine_orders(sleeve_id,
                                                                      hb.order_intents)]
    /\ spc' = "mapped"
    /\ UNCHANGED <<ctx, budget, cap, hb, decision, supervisor, sink, log, now_ts, batching>>

InitOrders ==
    /\ KernelIdle
    /\ ctx = <<>>
    /\ budget = <<>>
    /\ cap = Finite(0)
    /\ \E order_intents \in IntentSeqs : hb = HeartbeatWith(order_intents)
    /\ spc = "done"
    /\ ExecutionIdle

NextOrders == MapOrders /\ UNCHANGED kvars

SpecOrders == InitOrders /\ [][NextOrders]_vars

----------------------------------------------------------------------------
(* Properties of GlobalRiskKernel (SpecKernel) *)

\* C1: an evaluate call never lowers the kernel's portfolio peak nor any
\* sleeve's peak_equity_usd, and a peak that changes in the call is equal to
\* the equity of that tick (the portfolio's equity_now, the sleeve's
\* equity_usd).  Steps of apply_cashflow_reset are not constrained.
C1_PeaksOnlyRise ==
    [][kop' = "evaluate" =>
          /\ peak' >= peak
          /\ (peak' # peak => peak' = EquityNow(tick'.portfolio))
          /\ \A i \in 1..Len(sleeves) :
                /\ sleeves'[i].peak_equity_usd >= sleeves[i].peak_equity_usd
                /\ (sleeves'[i].peak_equity_usd # sleeves[i].peak_equity_usd
                      => sleeves'[i].peak_equity_usd = sleeves'[i].equity_usd)]_vars

\* Both peaks were raised by earlier ticks and this tick's equities are
\* below them.
C1_Witness ==
    /\ kop = "evaluate"
    /\ peak > config.portfolio.initial_equity_usd
    /\ EquityNow(tick.portfolio) < peak
    /\ sleeves[1].peak_equity_usd = 250000
    /\ sleeves[1].equity_usd = 170000

\* C2: every envelope whose portfolio_halt or sleeve_halt is Halt or Kill
\* has max_position_size_usd = 0.
C2_HaltZeroesPositionSize ==
    \A i \in 1..Len(envelopes) :
        (IsHaltOrKill(envelopes[i].portfolio_halt) \/ IsHaltOrKill(envelopes[i].sleeve_halt))
            => envelopes[i].max_position_size_usd = 0

\* Only the first sleeve is halted, with headroom left: its size is zero
\* while the other sleeve of the same tick keeps a positive size.
C2_Witness ==
    /\ kop = "evaluate"
    /\ Len(envelopes) = 2
    /\ envelopes[1].portfolio_halt = "None"
    /\ IsHaltOrKill(envelopes[1].sleeve_halt)
    /\ envelopes[1].exposure_remaining_usd > 0
    /\ envelopes[1].margin_remaining_usd > 0
    /\ envelopes[1].max_position_size_usd = 0
    /\ envelopes[2].max_position_size_usd > 0

\* The sum of max_concurrent_positions over the envelopes of the last tick.
EnvelopeSlots == SumSeq([i \in 1..Len(envelopes) |-> envelopes[i].max_concurrent_positions])

\* C4: when the tick leaves global slots (remaining_slots > 0), the
\* envelopes' max_concurrent_positions add up to at most
\* max_global_positions.
C4_SlotsWithinGlobalCap ==
    (kop = "evaluate" /\ RemainingSlots(config.portfolio, sleeves) > 0)
        => EnvelopeSlots <= config.portfolio.max_global_positions

\* Positions are open, slots remain, and the envelopes hand out exactly
\* max_global_positions.
C4_Witness ==
    /\ kop = "evaluate"
    /\ RemainingSlots(config.portfolio, sleeves) > 0
    /\ TotalOpenPositions(sleeves) > 0
    /\ EnvelopeSlots = config.portfolio.max_global_positions

\* C5: exposure_remaining_usd and margin_remaining_usd of every envelope
\* are >= 0.
C5_HeadroomNonNegative ==
    \A i \in 1..Len(envelopes) :
        /\ envelopes[i].exposure_remaining_usd >= 0
        /\ envelopes[i].margin_remaining_usd >= 0

\* Negative equity with exposure above the leverage limit and a margin
\* requirement above equity: both pools are reported as 0.
C5_Witness ==
    /\ kop = "evaluate"
    /\ Len(envelopes) = 2
    /\ EquityNow(tick.portfolio) < 0
    /\ tick.portfolio.total_notional_exposure
         > Trunc(config.portfolio.max_leverage * EquityNow(tick.portfolio), 100)
    /\ Max(tick.margin.internal_margin_req_usd, tick.margin.broker_margin_req_usd)
         > EquityNow(tick.portfolio)
    /\ envelopes[1].exposure_remaining_usd = 0
    /\ envelopes[1].margin_remaining_usd = 0

----------------------------------------------------------------------------
(* Properties of MacroFuturesSleeve (SpecSleeve) *)

HeartbeatDone == spc = "done"

\* The envelope's min(exposure_remaining_usd, margin_remaining_usd).
EnvelopeHeadroom ==
    Min(ctx.risk_envelope.exposure_remaining_usd, ctx.risk_envelope.margin_remaining_usd)

\* Instruments of a plan (a sequence of records with an instrument field).
InstrumentsOf(plan) == {plan[i].instrument : i \in 1..Len(plan)}

PlannedNotional ==
    SumSeq([i \in 1..Len(hb.planned_positions) |->
               Abs(hb.planned_positions[i].target_notional_usd)])

\* C6: every planned position has |target_notional_usd| <=
\* min(exposure_remaining_usd, margin_remaining_usd) of the envelope, and
\* so has the sum of |target_notional_usd| over the planned positions.
C6_NotionalWithinHeadroom ==
    HeartbeatDone =>
        /\ \A i \in 1..Len(hb.planned_positions) :
              Abs(hb.planned_positions[i].target_notional_usd) <= EnvelopeHeadroom
        /\ PlannedNotional <= EnvelopeHeadroom

\* Two positions planned, the second scaled back to what the first left:
\* together they take the whole headroom, which is below the position size.
C6_Witness ==
    /\ HeartbeatDone
    /\ Len(hb.planned_positions) >= 2
    /\ EnvelopeHeadroom < ctx.risk_envelope.max_position_size_usd
    /\ PlannedNotional = EnvelopeHeadroom

\* C7: for every entry of plan_risk_report, total_risk_eur / eur_per_usd is
\* at most min(exposure_remaining_usd, margin_remaining_usd) of the
\* envelope, and aggregate.total_notional_usd is at most
\* exposure_remaining_usd.
C7_RiskNotionalWithinHeadroom ==
    HeartbeatDone =>
        /\ \A i \in 1..Len(hb.risk_report) :
              ReconstructedNotionalUsd(ctx, hb.risk_report[i]) <= EnvelopeHeadroom
        /\ hb.aggregate.total_notional_usd <= ctx.risk_envelope.exposure_remaining_usd

\* Instruments the plan opens: planned, with current position 0.
NewlyOpened(plan) == {inst \in InstrumentsOf(plan) : CurrentPosition(ctx, inst) = 0}

\* C8: once the instruments with a nonzero current position number
\* max_concurrent_positions or more, no flat instrument is in the planned
\* positions or contracts; in every plan the newly opened instruments
\* number at most max_concurrent_positions minus the instruments open now
\* (none once that difference is used up).
C8_FlatNeedsSlot ==
    HeartbeatDone =>
        LET max_slots == ctx.risk_envelope.max_concurrent_positions
            current_open == CurrentOpen(ctx)
        IN /\ current_open >= max_slots
                => /\ NewlyOpened(hb.planned_positions) = {}
                   /\ NewlyOpened(hb.planned_contracts) = {}
           /\ Cardinality(NewlyOpened(hb.planned_positions))
                 <= Max(max_slots - current_open, 0)
           /\ Cardinality(NewlyOpened(hb.planned_contracts))
                 <= Max(max_slots - current_open, 0)

\* No slot is left, a flat instrument with a tradable signal stays out of
\* the plan, and an instrument that holds a position receives a target.
C8_Witness ==
    /\ HeartbeatDone
    /\ ~PlanningBlocked(ctx)
    /\ CurrentOpen(ctx) >= ctx.risk_envelope.max_concurrent_positions
    /\ ctx.histories = TradableHistories
    /\ \E inst \in Instruments :
          /\ CurrentPosition(ctx, inst) = 0
          /\ inst \notin InstrumentsOf(hb.planned_positions)
    /\ \E inst \in InstrumentsOf(hb.planned_contracts) : CurrentPosition(ctx, inst) # 0

\* C9 as stated: aggregate.instrument_count is at most the envelope's
\* max_concurrent_positions.
C9_CountWithinSlots ==
    HeartbeatDone =>
        hb.aggregate.instrument_count <= ctx.risk_envelope.max_concurrent_positions

\* C9: aggregate.instrument_count is at most the larger of the envelope's
\* max_concurrent_positions and the number of instruments with a nonzero
\* current position.
C9_CountWithinSlotsOrHeld ==
    HeartbeatDone =>
        hb.aggregate.instrument_count
            <= Max(ctx.risk_envelope.max_concurrent_positions, CurrentOpen(ctx))

\* Three tradable signals and two slots: two instruments in the plan, one
\* held before and one newly opened.
C9_Witness ==
    /\ HeartbeatDone
    /\ ctx.histories = TradableHistories
    /\ ctx.risk_envelope.max_concurrent_positions = 2
    /\ CurrentOpen(ctx) = 1
    /\ Len(hb.planned_positions) = 2
    /\ hb.aggregate.instrument_count = 2
    /\ NewlyOpened(hb.planned_contracts) # {}

\* Contract multiplier of MES in USD per index point.
MesContractSize == 5

\* EUR risk of one MES contract: last close x contract size x eur_per_usd.
MesContractRiskEur ==
    Trunc(ctx.histories["Mes"].last.close * MesContractSize * ctx.eur_per_usd, 100)

\* C10: the MES contracts planned number at most
\* floor(max_risk_per_position_eur / EUR risk of one contract), the EUR
\* risk of one contract being last close x contract size x eur_per_usd;
\* none is planned when one contract's risk exceeds the budget.
C10_ContractsWithinPriceRisk ==
    HeartbeatDone =>
        \A i \in 1..Len(hb.planned_contracts) :
            hb.planned_contracts[i].instrument = "Mes"
                => Abs(hb.planned_contracts[i].target_contracts)
                      <= budget.mes.max_risk_per_position_eur \div MesContractRiskEur

\* The MES contracts of a plan, 0 when MES is not in it.
MesContracts(plan) ==
    IF "Mes" \in InstrumentsOf(plan)
    THEN Abs(plan[CHOOSE i \in 1..Len(plan) : plan[i].instrument = "Mes"].target_contracts)
    ELSE 0

\* EUR risk of one MES contract at the rate fx.
MesContractRiskEurAt(fx) ==
    Trunc(ctx.histories["Mes"].last.close * MesContractSize * fx, 100)

\* The same heartbeat context at eur_per_usd = 1.0.
ContextAtPar == [ctx EXCEPT !.eur_per_usd = 100]

\* C11: at eur_per_usd = 0.5, where the EUR risk cap of MES
\* (max_risk_per_position_eur over the EUR risk of one contract) would cut
\* the plan at eur_per_usd = 1.0 and is larger at 0.5, plan_contracts
\* plans strictly more MES contracts than it plans for the same context at
\* eur_per_usd = 1.0.
C11_LowerFxPlansMore ==
    (/\ HeartbeatDone
     /\ ctx.eur_per_usd = 50
     /\ "Mes" \in InstrumentsOf(hb.planned_contracts)
     /\ budget.mes.max_risk_per_position_eur \div MesContractRiskEurAt(50)
           > budget.mes.max_risk_per_position_eur \div MesContractRiskEurAt(100)
     /\ \A ord \in Orders(DOMAIN ctx.histories) :
           budget.mes.max_risk_per_position_eur \div MesContractRiskEurAt(100)
              < MesContracts(plan_contracts(DefaultSleeveConfig, ContextAtPar, budget, ord)))
    => \A ord \in Orders(DOMAIN ctx.histories) :
          MesContracts(hb.planned_contracts)
             > MesContracts(plan_contracts(DefaultSleeveConfig, ContextAtPar, budget, ord))

\* target_contracts of inst in the planned contracts, 0 without a target.
PlannedTarget(inst) ==
    IF inst \in InstrumentsOf(hb.planned_contracts)
    THEN hb.planned_contracts[CHOOSE i \in 1..Len(hb.planned_contracts) :
                                 hb.planned_contracts[i].instrument = inst].target_contracts
    ELSE 0

\* The order intents of inst, and the sum of their deltas.
IntentsOf(inst) ==
    {k \in 1..Len(hb.order_intents) : hb.order_intents[k].instrument = inst}

DeltaSum(inst) ==
    SumSeq([k \in 1..Len(hb.order_intents) |->
               IF hb.order_intents[k].instrument = inst
               THEN hb.order_intents[k].delta_contracts ELSE 0])

\* C12: for every instrument, the current position plus the deltas of its
\* order intents equals its target_contracts of plan_contracts (0 without a
\* planned target); an instrument has at most one intent and no intent has
\* delta 0.
C12_IntentsReachTargets ==
    HeartbeatDone =>
        \A inst \in Instruments :
            /\ Cardinality(IntentsOf(inst)) <= 1
            /\ \A k \in IntentsOf(inst) : hb.order_intents[k].delta_contracts # 0
            /\ CurrentPosition(ctx, inst) + DeltaSum(inst) = PlannedTarget(inst)

\* One held instrument is planned at the size it holds and gets no intent,
\* another held instrument has no target and is closed.
C12_Witness ==
    /\ HeartbeatDone
    /\ \E inst \in Instruments :
          /\ CurrentPosition(ctx, inst) # 0
          /\ PlannedTarget(inst) = CurrentPosition(ctx, inst)
          /\ IntentsOf(inst) = {}
    /\ \E inst \in Instruments :
          /\ CurrentPosition(ctx, inst) # 0
          /\ inst \notin InstrumentsOf(hb.planned_contracts)
          /\ DeltaSum(inst) = -CurrentPosition(ctx, inst)

----------------------------------------------------------------------------
(* Properties of the order mapping (SpecOrders) *)

\* The order intents with a nonzero delta, in their order.
NonZeroIntents == SelectSeq(hb.order_intents, LAMBDA oi : oi.delta_contracts # 0)

\* C13: the engine orders are, one for one and in order, the order intents
\* with a nonzero delta: side Buy for a positive delta and Sell otherwise,
\* quantity |delta| > 0, the given sleeve_id, and the instrument's symbol
\* (MES, MNQ, 6E) on venue CME.
C13_OrdersMirrorIntents ==
    spc = "mapped" =>
        /\ Len(engine_orders.orders) = Len(NonZeroIntents)
        /\ \A i \in 1..Len(NonZeroIntents) :
              LET eo == engine_orders.orders[i]
                  oi == NonZeroIntents[i]
              IN /\ eo.instrument = oi.instrument
                 /\ (eo.side = "Buy") <=> (oi.delta_contracts > 0)
                 /\ (eo.side = "Sell") <=> (oi.delta_contracts < 0)
                 /\ eo.quantity > 0
                 /\ eo.quantity = Abs(oi.delta_contracts)
                 /\ eo.sleeve_id = engine_orders.sleeve_id
                 /\ eo.venue = "CME"
                 /\ eo.symbol = (IF oi.instrument = "Mes" THEN "MES"
                                 ELSE IF oi.instrument = "Mnq" THEN "MNQ" ELSE "6E")

\* A sell of 2 on 6E is mapped and the zero delta before it is dropped.
C13_Witness ==
    /\ spc = "mapped"
    /\ Len(hb.order_intents) = 2
    /\ hb.order_intents[1].delta_contracts = 0
    /\ Len(engine_orders.orders) = 1
    /\ engine_orders.orders[1].side = "Sell"
    /\ engine_orders.orders[1].quantity = 2
    /\ engine_orders.orders[1].symbol = "6E"

----------------------------------------------------------------------------
(* Properties of the sleeve risk sanity check (SpecSleeve) *)

\* C14: the sanity of a heartbeat is Ok when the cap is not finite or <= 0;
\* under any other cap it is Ok exactly when the aggregate total_risk_eur is
\* at most the cap, and ExceedsCap otherwise.  For an aggregate risk R > 0,
\* a cap of twice R gives Ok and a cap of half R gives ExceedsCap.
C14_SanityFollowsCap ==
    HeartbeatDone =>
        /\ hb.sanity \in {"Ok", "ExceedsCap"}
        /\ (~is_finite(cap) \/ cap.value <= 0) => hb.sanity = "Ok"
        /\ (is_finite(cap) /\ cap.value > 0)
              => (hb.sanity = "Ok" <=> hb.aggregate.total_risk_eur <= cap.value)
        /\ \A ord \in Orders(DOMAIN ctx.histories) :
              LET R == aggregate_sleeve_risk(DefaultSleeveConfig, ctx, budget, ord).total_risk_eur
              IN (R > 0 /\ R % 2 = 0) =>
                   /\ check_sleeve_risk_sanity(DefaultSleeveConfig, ctx, budget, ord,
                                               Finite(2 * R)) = "Ok"
                   /\ check_sleeve_risk_sanity(DefaultSleeveConfig, ctx, budget, ord,
                                               Finite(R \div 2)) = "ExceedsCap"

\* A plan whose aggregate risk is above a positive cap.
C14_Witness ==
    /\ HeartbeatDone
    /\ is_finite(cap)
    /\ cap.value > 0
    /\ hb.aggregate.total_risk_eur > cap.value
    /\ hb.sanity = "ExceedsCap"

----------------------------------------------------------------------------
(* Properties of the risk decision (SpecDecision) *)

\* The reasons of a rejection, in their order of precedence, each with the
\* condition that raises it.
RejectionOrder ==
    LET env == envelopes[1]
    IN << <<"PortfolioHalt", env.portfolio_halt \in {"Halt", "Kill"}>>,
          <<"SleeveHalt", env.sleeve_halt \in {"Halt", "Kill"}>>,
          <<"NoMarginHeadroom", env.margin_remaining_usd <= 0>>,
          <<"NoExposureHeadroom", env.exposure_remaining_usd <= 0>>,
          <<"PositionSizeZero", env.max_position_size_usd <= 0>>,
          <<"ConcurrencyLimit",
            sleeves[1].open_positions >= env.max_concurrent_positions>> >>

\* C15: a decision rejects with the first reason, in the order PortfolioHalt,
\* SleeveHalt, NoMarginHeadroom, NoExposureHeadroom, PositionSizeZero,
\* ConcurrencyLimit, whose condition holds, and a rejection allows nothing
\* (allow_new_position false, max_new_positions 0, notional 0); when no
\* condition holds it allows max_concurrent_positions - open_positions new
\* positions of at most max_position_size_usd; taking the decision leaves the
\* sleeve state, the envelope and the kernel as they were.
C15_DecisionOrder ==
    [][decision' # decision =>
         /\ UNCHANGED <<kvars, svars, engine_orders, supervisor, sink, log, now_ts, batching>>
         /\ \A k \in 1..Len(RejectionOrder) :
               (RejectionOrder[k][2] /\ \A j \in 1..(k - 1) : ~RejectionOrder[j][2])
                  => decision' = [allow_new_position |-> FALSE,
                                  max_new_positions |-> 0,
                                  max_order_notional_usd |-> 0,
                                  reason |-> RejectionOrder[k][1]]
         /\ (\A k \in 1..Len(RejectionOrder) : ~RejectionOrder[k][2])
               => decision' = [allow_new_position |-> TRUE,
                               max_new_positions |->
                                   envelopes[1].max_concurrent_positions
                                      - sleeves[1].open_positions,
                               max_order_notional_usd |->
                                   envelopes[1].max_position_size_usd,
                               reason |-> "Ok"]]_vars

\* A rejection for margin while the exposure headroom, the position size and
\* the slots are exhausted too.
C15_Witness ==
    /\ decision # NoDecision
    /\ decision.reason = "NoMarginHeadroom"
    /\ envelopes[1].exposure_remaining_usd <= 0
    /\ envelopes[1].max_position_size_usd <= 0
    /\ sleeves[1].open_positions >= envelopes[1].max_concurrent_positions

----------------------------------------------------------------------------
(* Properties of the halt states (SpecKernel) *)

\* The halt state that the claim derives from a drawdown: Kill at or below
\* the kill threshold, Halt above it and at or below the halt threshold,
\* None otherwise.
ClaimedHalt(equity, pk, halt_pct, kill_pct) ==
    CHOOSE h \in HaltStates :
        /\ h = "Kill" <=> DrawdownAtOrBelow(equity, pk, kill_pct)
        /\ h = "Halt" <=> (/\ ~DrawdownAtOrBelow(equity, pk, kill_pct)
                           /\ DrawdownAtOrBelow(equity, pk, halt_pct))

\* C16: after evaluate, with drawdown = equity / peak - 1 (0 when peak <= 0),
\* the portfolio halt state of every envelope is Kill iff the drawdown is at
\* or below kill_dd_frac, Halt iff it is above kill_dd_frac and at or below
\* halt_dd_frac, and None otherwise; portfolio_risk_state is Stress, Caution
\* or Normal exactly when the portfolio halt is Kill, Halt or None; and each
\* sleeve's halt state follows in the same way from the sleeve's own equity,
\* peak and thresholds.
C16_HaltStatesFollowDrawdown ==
    kop = "evaluate" =>
        \A i \in 1..Len(envelopes) :
            LET env == envelopes[i]
                pcfg == config.portfolio
                scfg == SleeveConfigOf(config, sleeves[i].sleeve_id)
            IN /\ env.portfolio_halt =
                     ClaimedHalt(EquityNow(tick.portfolio), peak,
                                 pcfg.halt_dd_frac, pcfg.kill_dd_frac)
               /\ env.portfolio_risk_state = "Stress" <=> env.portfolio_halt = "Kill"
               /\ env.portfolio_risk_state = "Caution" <=> env.portfolio_halt = "Halt"
               /\ env.portfolio_risk_state = "Normal" <=> env.portfolio_halt = "None"
               /\ env.sleeve_halt =
                     ClaimedHalt(sleeves[i].equity_usd, sleeves[i].peak_equity_usd,
                                 scfg.halt_dd_frac, scfg.kill_dd_frac)

\* The portfolio is between its halt and its kill threshold while a sleeve
\* is at its kill threshold.
C16_Witness ==
    /\ kop = "evaluate"
    /\ envelopes[1].portfolio_halt = "Halt"
    /\ envelopes[1].portfolio_risk_state = "Caution"
    /\ envelopes[1].sleeve_halt = "Kill"
    /\ envelopes[2].sleeve_halt = "None"

----------------------------------------------------------------------------
(* Properties of the cashflow reset (SpecKernel) *)

\* |equity_after - equity_before| / equity_before >= 20%, as the f64
\* division gives it: a division of a nonzero amount by 0 is +infinity, 0 / 0
\* is NaN, and a negative equity_before gives a fraction that is not positive.
CashflowFractionAtLeast20(equity_before, equity_after) ==
    IF equity_before > 0
    THEN 100 * Abs(equity_after - equity_before) >= 20 * equity_before
    ELSE equity_before = 0 /\ equity_after # equity_before

\* C19 as stated: apply_cashflow_reset puts the portfolio peak at
\* equity_after when |equity_after - equity_before| / equity_before >= 20%
\* and leaves it unchanged otherwise; no sleeve peak changes.
C19_ResetIffTwentyPercent ==
    [][kop' = "reset" =>
          /\ peak' = IF CashflowFractionAtLeast20(cashflow'.equity_before,
                                                  cashflow'.equity_after)
                     THEN cashflow'.equity_after
                     ELSE peak
          /\ \A i \in 1..Len(sleeves) :
                sleeves'[i].peak_equity_usd = sleeves[i].peak_equity_usd]_vars

\* C19, amended: apply_cashflow_reset puts the portfolio peak at equity_after
\* when equity_before <= 0 or |equity_after - equity_before| / equity_before
\* >= 20%, and leaves it unchanged otherwise; no sleeve peak changes.
C19_ResetIffTwentyPercentOrNoEquity ==
    [][kop' = "reset" =>
          /\ peak' = IF \/ cashflow'.equity_before <= 0
                        \/ CashflowFractionAtLeast20(cashflow'.equity_before,
                                                     cashflow'.equity_after)
                     THEN cashflow'.equity_after
                     ELSE peak
          /\ \A i \in 1..Len(sleeves) :
                sleeves'[i].peak_equity_usd = sleeves[i].peak_equity_usd]_vars

\* A reset from a negative equity_before has moved the peak, after a tick
\* had raised a sleeve's peak above its start.
C19_Witness ==
    /\ kop = "reset"
    /\ cashflow.equity_before < 0
    /\ cashflow.equity_after = 800000
    /\ peak = 800000
    /\ sleeves[1].peak_equity_usd = 250000

----------------------------------------------------------------------------
(* Determinism of the planner (SpecSleeve) *)

\* The entries of a plan, without their order.
EntriesOf(plan) == {plan[i] : i \in 1..Len(plan)}

\* C18: a second run of plan_positions and of plan_contracts on the context
\* and budget of a heartbeat returns the planned instruments and targets of
\* the heartbeat, whatever headroom, slots and contract budget are left.
C18_PlanIsDeterministic ==
    HeartbeatDone =>
        \A ord \in Orders(DOMAIN ctx.histories) :
            /\ EntriesOf(plan_positions(DefaultSleeveConfig, ctx, ord))
                  = EntriesOf(hb.planned_positions)
            /\ EntriesOf(plan_contracts(DefaultSleeveConfig, ctx, budget, ord))
                  = EntriesOf(hb.planned_contracts)

----------------------------------------------------------------------------
(* The bundled plan against the separate calls (SpecSleeve) *)

\* C20: the planned contracts, risk report, aggregate and sanity of a
\* heartbeat are those that plan_contracts, plan_risk_report,
\* aggregate_sleeve_risk and check_sleeve_risk_sanity return on the same
\* context (the same map, so the same iteration), budget and cap; the risk
\* report lists, entry by entry, the instruments and target_contracts of the
\* planned contracts; and the order intents are those of plan_order_intents.
C20_HeartbeatBundlesSeparateCalls ==
    HeartbeatDone =>
        /\ \E ord \in Orders(DOMAIN ctx.histories) :
              /\ hb.planned_contracts = plan_contracts(DefaultSleeveConfig, ctx, budget, ord)
              /\ hb.risk_report = plan_risk_report(DefaultSleeveConfig, ctx, budget, ord)
              /\ hb.aggregate = aggregate_sleeve_risk(DefaultSleeveConfig, ctx, budget, ord)
              /\ hb.sanity = check_sleeve_risk_sanity(DefaultSleeveConfig, ctx, budget,
                                                      ord, cap)
              /\ \E pord \in Orders(DOMAIN ctx.current_positions) :
                    hb.order_intents = plan_order_intents(DefaultSleeveConfig, ctx,
                                                          budget, ord, pord)
        /\ Len(hb.risk_report) = Len(hb.planned_contracts)
        /\ \A i \in 1..Len(hb.planned_contracts) :
              /\ hb.risk_report[i].instrument = hb.planned_contracts[i].instrument
              /\ hb.risk_report[i].target_contracts
                    = hb.planned_contracts[i].target_contracts

\* A plan above the cap that the contract budget has cut short of the
\* planned positions, with an order intent behind it.
C20_Witness ==
    /\ HeartbeatDone
    /\ Len(hb.planned_positions) > Len(hb.planned_contracts)
    /\ Len(hb.planned_contracts) >= 1
    /\ Len(hb.risk_report) = Len(hb.planned_contracts)
    /\ hb.sanity = "ExceedsCap"
    /\ Len(hb.order_intents) >= 1

----------------------------------------------------------------------------
(* Engine health in the logged heartbeat (SpecEngine) *)

\* The orders that a step has added to the sink.
Submitted(before, after) == SubSeq(after, Len(before) + 1, Len(after))

\* An order that closes the current position of its instrument.
Flattens(order, positions) ==
    /\ order.instrument \in DOMAIN positions
    /\ positions[order.instrument] # 0
    /\ (IF order.side = "Buy" THEN order.quantity ELSE -order.quantity)
          = -positions[order.instrument]

\* C17: in a heartbeat with logging, the engine_health of the context given
\* to the planner is the health of the supervisor after it registered the
\* tick; when that health is Degraded, every order submitted to the sink
\* closes a current position, and none opens or resizes one.
C17_DegradedOnlyFlattens ==
    [][log' # log =>
          /\ ctx'.engine_health = supervisor'.health
          /\ supervisor'.health = "Degraded" =>
                \A k \in 1..Len(Submitted(sink, sink')) :
                    Flattens(Submitted(sink, sink')[k], ctx'.current_positions)]_vars

----------------------------------------------------------------------------
(* The order sink over a sequence of engine heartbeats (SpecEngine) *)

\* The heartbeat lines of a log (a supervisor event carries no orders).
HeartbeatLines(lines) == SelectSeq(lines, LAMBDA l : "orders" \in DOMAIN l)

\* The order lists of the heartbeat lines, one behind the other.
RECURSIVE OrdersLogged(_)
OrdersLogged(lines) ==
    IF lines = <<>> THEN <<>>
    ELSE OrdersLogged(SubSeq(lines, 1, Len(lines) - 1))
            \o (IF "orders" \in DOMAIN lines[Len(lines)]
                THEN lines[Len(lines)].orders ELSE <<>>)

\* C21: an engine heartbeat adds to the sink exactly the engine orders of
\* its result, in their order, each once and each with quantity > 0; so
\* after any number of heartbeats the in-memory sink holds the order lists
\* of the ticks, one behind the other.
C21_SinkHoldsEveryOrderOnce ==
    [][log' # log =>
          /\ Len(sink') = Len(sink) + Len(engine_orders'.orders)
          /\ \A k \in 1..Len(sink) : sink'[k] = sink[k]
          /\ \A k \in 1..Len(engine_orders'.orders) :
                /\ sink'[Len(sink) + k] = engine_orders'.orders[k]
                /\ engine_orders'.orders[k].quantity > 0
          /\ sink' = OrdersLogged(log')]_vars

\* Three ticks have submitted orders: the last one two, on top of those of
\* the ticks before.
C21_Witness ==
    /\ Len(HeartbeatLines(log)) = 3
    /\ \A k \in 1..3 : Len(HeartbeatLines(log)[k].orders) >= 1
    /\ Len(engine_orders.orders) = 2
    /\ Len(sink) >= 4

----------------------------------------------------------------------------
(* Properties of the heartbeat supervisor (SpecSupervisor) *)

\* C22: the first register_tick leaves the supervisor Healthy; a later
\* register_tick(ts) leaves it Degraded exactly when ts minus the previous
\* tick is above max_gap_seconds, and Healthy otherwise, whatever its health
\* was before; every tick puts ts in last_tick_ts and leaves max_gap_seconds
\* alone.
C22_HealthFollowsLastGap ==
    [][now_ts' # now_ts \/ supervisor' # supervisor =>
          /\ supervisor'.last_tick_ts = now_ts'
          /\ supervisor'.max_gap_seconds = supervisor.max_gap_seconds
          /\ supervisor.last_tick_ts = <<>> => supervisor'.health = "Healthy"
          /\ supervisor.last_tick_ts # <<>> =>
                /\ supervisor'.health \in {"Healthy", "Degraded"}
                /\ supervisor'.health = "Degraded"
                      <=> now_ts'[1] - supervisor.last_tick_ts[1]
                             > supervisor.max_gap_seconds]_vars

\* A tick one second beyond the limit of 65 has degraded the supervisor.
C22_Witness ==
    /\ supervisor.max_gap_seconds = 65
    /\ supervisor.last_tick_ts = <<66>>
    /\ now_ts = <<66>>
    /\ supervisor.health = "Degraded"

----------------------------------------------------------------------------
(* Properties of the batching heartbeat logger (SpecBatching) *)

\* Every line the logger has taken: those forwarded, then those buffered.
LinesTaken(inner, bl) == inner \o bl.buffer

\* C23: a log call forwards nothing to the inner sink while the buffer stays
\* below its capacity; when a log call fills the buffer, or flush is called,
\* the inner sink receives every buffered line, in the order logged and once
\* each, and the buffer is left empty; after any call fewer lines than the
\* capacity are buffered, and no line is lost or invented.
C23_BatchingForwardsInOrder ==
    [][(batching' # batching \/ log' # log) =>
          LET taken == LinesTaken(log, batching)
              taken_after == LinesTaken(log', batching')
              logged == Len(taken_after) = Len(taken) + 1
          IN /\ batching'.capacity = batching.capacity
             /\ Len(batching'.buffer) < batching.capacity
             /\ SubSeq(taken_after, 1, Len(taken)) = taken
             /\ logged \/ taken_after = taken
             /\ logged => taken_after[Len(taken_after)] \in LogLines
             /\ (logged /\ Len(batching.buffer) + 1 < batching.capacity)
                   => log' = log
             /\ (~logged \/ Len(batching.buffer) + 1 >= batching.capacity)
                   => (log' = taken_after /\ batching'.buffer = <<>>)]_vars

\* A logger of capacity 3 has forwarded five lines and buffers none: three
\* when the buffer filled, two more on a flush or the other way round.
C23_Witness ==
    /\ batching # <<>>
    /\ batching.capacity = 3
    /\ Len(log) = 5
    /\ log[1] # log[2]
    /\ batching.buffer = <<>>

----------------------------------------------------------------------------
(* The lines of a logged engine heartbeat (SpecEngine) *)

\* The lines that a step has added to the log.
LinesAdded == SubSeq(log', Len(log) + 1, Len(log'))

\* A heartbeat line, and a supervisor event line.
IsHeartbeatLine(l) == "orders" \in DOMAIN l

IsSupervisorEvent(l) == "msg" \in DOMAIN l /\ l.msg = "heartbeat_gap_detected"

\* C24: a heartbeat with logging keeps the lines logged before and adds one
\* heartbeat line as the last line, carrying the orders of the tick, which
\* the sink then holds; a tick that leaves the supervisor Degraded adds one
\* supervisor event line (heartbeat_gap_detected) before the heartbeat line,
\* and a tick that leaves it Healthy adds nothing else.
C24_OneHeartbeatLinePerTick ==
    [][now_ts' # now_ts =>
          /\ SubSeq(log', 1, Len(log)) = log
          /\ Len(LinesAdded) = (IF supervisor'.health = "Degraded" THEN 2 ELSE 1)
          /\ IsHeartbeatLine(LinesAdded[Len(LinesAdded)])
          /\ LinesAdded[Len(LinesAdded)].ts_utc = now_ts'[1]
          /\ LinesAdded[Len(LinesAdded)].orders = engine_orders'.orders
          /\ Submitted(sink, sink') = LinesAdded[Len(LinesAdded)].orders
          /\ supervisor'.health = "Degraded" =>
                /\ IsSupervisorEvent(LinesAdded[1])
                /\ ~IsHeartbeatLine(LinesAdded[1])
                /\ LinesAdded[1].ts_utc = now_ts'[1]
                /\ LinesAdded[1].status = "Degraded"]_vars

\* A tick after a gap has logged its supervisor event and then a heartbeat
\* line with an order.
C24_Witness ==
    /\ Len(log) = 3
    /\ supervisor.health = "Degraded"
    /\ IsSupervisorEvent(log[2])
    /\ IsHeartbeatLine(log[3])
    /\ Len(log[3].orders) >= 1
    /\ log[3].engine_health = "Degraded"

----------------------------------------------------------------------------
(* The shipped risk profiles, each run through a kernel (SpecProfiles) *)

\* mk_sleeve / a SleeveRiskConfig literal: USD in cents, the drawdown limits
\* in percent, max_single_pos_risk_frac in permille.
mk_sleeve(sleeve_id, capital_alloc_usd, max_single_pos_risk_frac, halt_dd_frac, kill_dd_frac, max_concurrent_positions) ==
    [sleeve_id |-> sleeve_id,
     capital_alloc_usd |-> capital_alloc_usd,
     max_single_pos_risk_frac |-> max_single_pos_risk_frac,
     halt_dd_frac |-> halt_dd_frac,
     kill_dd_frac |-> kill_dd_frac,
     max_concurrent_positions |-> max_concurrent_positions]

default_portfolio_config_10k ==
    [initial_equity_usd |-> 1000000,
     halt_dd_frac |-> -8,
     kill_dd_frac |-> -12,
     max_leverage |-> 150,
     max_global_positions |-> 15]

default_sleeve_configs_10k ==
    << mk_sleeve("EquityLongShort", 200000, 20, -10, -15, 10),
       mk_sleeve("StatArbResidual", 250000, 15, -10, -18, 20),
       mk_sleeve("MicrostructureIntraday", 150000, 10, -8, -12, 10),
       mk_sleeve("OptionsVolPremium", 200000, 30, -10, -15, 6),
       mk_sleeve("MicroFuturesMacroTrend", 200000, 45, -10, -15, 3) >>

\* Mutant of default_global_risk_kernel_config_usd_10k: the micro-futures
\* sleeve has its halt limit below its kill limit.
Default10kHaltBelowKill ==
    [portfolio |->
        [initial_equity_usd |-> 1000000,
         halt_dd_frac |-> -10,
         kill_dd_frac |-> -20,
         max_leverage |-> 150,
         max_global_positions |-> 20],
     sleeves |-> <<
        mk_sleeve("EquityLongShort", 150000, 10, -12, -18, 10),
        mk_sleeve("StatArbResidual", 150000, 8, -12, -18, 20),
        mk_sleeve("MicrostructureIntraday", 100000, 5, -8, -15, 30),
        mk_sleeve("OptionsVolPremium", 100000, 20, -12, -20, 6),
        mk_sleeve("MicroFuturesMacroTrend", 500000, 50, -25, -15, 4) >>]

default_global_risk_kernel_config_usd_10k ==
    [portfolio |->
        [initial_equity_usd |-> 1000000,
         halt_dd_frac |-> -10,
         kill_dd_frac |-> -20,
         max_leverage |-> 150,
         max_global_positions |-> 20],
     sleeves |-> <<
        mk_sleeve("EquityLongShort", 150000, 10, -12, -18, 10),
        mk_sleeve("StatArbResidual", 150000, 8, -12, -18, 20),
        mk_sleeve("MicrostructureIntraday", 100000, 5, -8, -15, 30),
        mk_sleeve("OptionsVolPremium", 100000, 20, -12, -20, 6),
        mk_sleeve("MicroFuturesMacroTrend", 500000, 50, -15, -25, 4) >>]

aggressive_25k_global_risk_kernel_config ==
    [portfolio |->
        [initial_equity_usd |-> 2500000,
         halt_dd_frac |-> -12,
         kill_dd_frac |-> -25,
         max_leverage |-> 200,
         max_global_positions |-> 30],
     sleeves |-> <<
        mk_sleeve("EquityLongShort", 500000, 15, -15, -25, 15),
        mk_sleeve("StatArbResidual", 625000, 10, -15, -25, 30),
        mk_sleeve("MicrostructureIntraday", 375000, 7, -10, -20, 40),
        mk_sleeve("OptionsVolPremium", 500000, 30, -15, -25, 8),
        mk_sleeve("MicroFuturesMacroTrend", 500000, 50, -15, -25, 4) >>]

\* The configurations a kernel is built from: the two kernel profiles and
\* the 10k portfolio config with the 10k sleeve configs.
ShippedProfiles ==
    { default_global_risk_kernel_config_usd_10k,
      aggressive_25k_global_risk_kernel_config,
      [portfolio |-> default_portfolio_config_10k,
       sleeves |-> default_sleeve_configs_10k] }

\* Portfolio equity of a tick, in percent of initial_equity_usd.
ProfileEquityPcts == {100, 92, 90, 88, 80, 75}

\* Equity of the moved sleeve, in percent of its capital_alloc_usd.
ProfileSleevePcts == {100, 92, 88, 85, 82, 75}

\* A PortfolioState whose equity is pct percent of the initial equity.
ProfilePortfolio(cfg, pct) ==
    [cash_usd |-> cfg.portfolio.initial_equity_usd,
     open_pnl_usd |-> Trunc(cfg.portfolio.initial_equity_usd * (pct - 100), 100),
     accrued_interest_usd |-> 0,
     total_notional_exposure |-> 0,
     current_leverage |-> 0]

\* Sleeve states at their allocation, sleeve k at pct percent of it.
ProfileSleeveUpdate(cfg, k, pct) ==
    [i \in 1..Len(cfg.sleeves) |->
        [equity_usd |-> IF i = k
                        THEN Trunc(cfg.sleeves[i].capital_alloc_usd * pct, 100)
                        ELSE cfg.sleeves[i].capital_alloc_usd,
         open_positions |-> 0]]

\* default_kernel_10k / aggressive_kernel_25k: GlobalRiskKernel::new(cfg),
\* with one sleeve state per configured sleeve at its allocation.
ProfileKernelNew(cfg) ==
    /\ config = cfg
    /\ peak = cfg.portfolio.initial_equity_usd
    /\ sleeves = [i \in 1..Len(cfg.sleeves) |->
                    [sleeve_id |-> cfg.sleeves[i].sleeve_id,
                     equity_usd |-> cfg.sleeves[i].capital_alloc_usd,
                     realized_pnl_usd |-> 0,
                     unrealized_pnl_usd |-> 0,
                     peak_equity_usd |-> cfg.sleeves[i].capital_alloc_usd,
                     open_positions |-> 0]]
    /\ tick = NoTick
    /\ envelopes = <<>>
    /\ kop = "new"
    /\ cashflow = NoCashflow

\* A tick of a profile's kernel: the portfolio and one sleeve in drawdown.
EvaluateProfile ==
    \E pct \in ProfileEquityPcts, k \in 1..Len(config.sleeves),
       spct \in ProfileSleevePcts :
        evaluate(ProfilePortfolio(config, pct), BaseMargin, BaseVol,
                 ProfileSleeveUpdate(config, k, spct))

InitProfiles ==
    /\ \E cfg \in ShippedProfiles : ProfileKernelNew(cfg)
    /\ SleeveIdle
    /\ ExecutionIdle

NextProfiles == EvaluateProfile /\ UNCHANGED <<svars, xvars>>

SpecProfiles == InitProfiles /\ [][NextProfiles]_vars

\* kill_dd_frac < halt_dd_frac < 0
LimitsConsistent(c) == c.kill_dd_frac < c.halt_dd_frac /\ c.halt_dd_frac < 0

\* C25: in every shipped profile the portfolio and every sleeve have
\* kill_dd_frac < halt_dd_frac < 0, and whenever a kernel built from a
\* profile reports Kill for the portfolio or for a sleeve, the drawdown is
\* also at or below the corresponding halt limit.
C25_ProfilesKillBelowHalt ==
    /\ LimitsConsistent(config.portfolio)
    /\ \A i \in 1..Len(config.sleeves) : LimitsConsistent(config.sleeves[i])
    /\ kop = "evaluate" =>
          \A i \in 1..Len(envelopes) :
              /\ envelopes[i].portfolio_halt = "Kill" =>
                    DrawdownAtOrBelow(EquityNow(tick.portfolio), peak,
                                      config.portfolio.halt_dd_frac)
              /\ envelopes[i].sleeve_halt = "Kill" =>
                    DrawdownAtOrBelow(sleeves[i].equity_usd,
                                      sleeves[i].peak_equity_usd,
                                      SleeveConfigOf(config, sleeves[i].sleeve_id).halt_dd_frac)

\* The 10k kernel profile at -20% with its micro-futures sleeve at -25%:
\* Kill for both.
C25_Witness ==
    /\ kop = "evaluate"
    /\ config = default_global_risk_kernel_config_usd_10k
    /\ envelopes[5].sleeve_id = "MicroFuturesMacroTrend"
    /\ envelopes[5].portfolio_halt = "Kill"
    /\ envelopes[5].sleeve_halt = "Kill"
    /\ envelopes[1].sleeve_halt = "None"

\* C26: a kernel built from the aggressive 25k profile has, for every
\* sleeve, 0 < max_single_pos_risk_frac <= 0.03 (30 permille) and
\* max_concurrent_positions > 0, and its sleeve allocations sum to the
\* portfolio's initial_equity_usd.
C26_Aggressive25kIsSane ==
    config = aggressive_25k_global_risk_kernel_config =>
        /\ \A i \in 1..Len(config.sleeves) :
              /\ config.sleeves[i].max_single_pos_risk_frac > 0
              /\ config.sleeves[i].max_single_pos_risk_frac <= 30
              /\ config.sleeves[i].max_concurrent_positions > 0
        /\ SumSeq([i \in 1..Len(config.sleeves) |->
                      config.sleeves[i].capital_alloc_usd])
              = config.portfolio.initial_equity_usd

C28_HeartbeatEvaluatesAllSleeves ==
    now_ts # <<>> =>
        /\ Len(envelopes) = Len(config.sleeves)
        /\ \A i \in 1..Len(config.sleeves) :
              \E j \in 1..Len(envelopes) :
                  envelopes[j].sleeve_id = config.sleeves[i].sleeve_id
        /\ MacroFuturesEnvelope(envelopes).max_concurrent_positions
              <= sleeves[1].open_positions
                   + config.portfolio.max_global_positions \div Len(config.sleeves)

----------------------------------------------------------------------------
(* evaluate_instrument over one history and configuration (SpecSignal) *)

\* A bar without drift inside its 50-day range: every score is zero.
FlatBar(price) ==
    [UpBar(price) EXCEPT !.ret_20d = 0, !.ret_60d = 0, !.ret_120d = 0]

\* The histories given to evaluate_instrument: the tradable ones, a flat
\* market, too few bars (with a valid and with an invalid last bar, and
\* none at all), and last bars failing one feature check each.
SignalHistories ==
    {HistUp, HistDown, HistWeak, HistUpFx, HistShort, HistInvalid,
     [n_bars |-> 130, last |-> FlatBar(10000)],
     [n_bars |-> 120, last |-> DownBar(10000)],
     [n_bars |-> 119, last |-> [UpBar(10000) EXCEPT !.atr_14 = 0]],
     [n_bars |-> 0, last |-> [UpBar(10000) EXCEPT !.close = 0]],
     [n_bars |-> 130, last |-> [UpBar(10000) EXCEPT !.close = 0]],
     [n_bars |-> 130, last |-> [UpBar(10000) EXCEPT !.volume = -1]],
     [n_bars |-> 130, last |-> [UpBar(10000) EXCEPT !.vol_60d = 0]],
     [n_bars |-> 130, last |-> [UpBar(10000) EXCEPT !.lowest_close_50d = -1]],
     [n_bars |-> 130,
      last |-> [FxBar EXCEPT !.fx_carry = <<[carry_rate_annualized |-> 200,
                                             carry_rate_vol_252d |-> 0]>>]]}

\* min_effective_score (hundredths) and min_conviction (permille) of the
\* configurations: none, the defaults, and stricter ones.
SignalThresholds == {0, 100, 200} \X {0, 300, 900}

SignalInput ==
    \E inst \in Instruments, hist \in SignalHistories, th \in SignalThresholds :
        ctx = [cfg |-> [DefaultSleeveConfig EXCEPT !.min_effective_score = th[1],
                                                   !.min_conviction = th[2]],
               instrument |-> inst,
               hist |-> hist,
               macro_scalars |-> NeutralMacro]

\* MacroFuturesSleeve::evaluate_instrument(inst, hist, macros)
EvaluateInstrument ==
    /\ spc = "signal_ready"
    /\ hb' = evaluate_instrument(ctx.cfg, ctx.instrument, ctx.hist, ctx.macro_scalars)
    /\ spc' = "signal_done"
    /\ UNCHANGED <<ctx, budget, cap>>

InitSignal ==
    /\ KernelIdle
    /\ SignalInput
    /\ budget = <<>>
    /\ cap = Finite(0)
    /\ hb = NoHeartbeat
    /\ spc = "signal_ready"
    /\ ExecutionIdle

NextSignal == EvaluateInstrument /\ UNCHANGED <<kvars, xvars>>

SpecSignal == InitSignal /\ [][NextSignal]_vars

\* sign(x)
Signum(x) == IF x > 0 THEN 1 ELSE IF x < 0 THEN -1 ELSE 0

\* The history and the last bar passed both checks: the signal was built by
\* build_final_signal.
SignalBuilt ==
    /\ spc = "signal_done"
    /\ validate_history(ctx.hist)
    /\ validate_features(ctx.hist.last)

\* |effective_score| < min_effective_score or conviction < min_conviction
BelowThresholds(cfg, f) ==
    \/ Abs(f.effective_score) < cfg.min_effective_score
    \/ f.conviction < cfg.min_conviction

\* C29: a built signal below one of the thresholds has direction 0 and
\* reason BelowThreshold, with its score and conviction reported; any other
\* built signal has reason Normal and direction sign(effective_score), so a
\* nonzero direction goes with a nonzero effective score of the same sign;
\* for every configuration of the thresholds.
C29_DirectionFollowsThresholds ==
    SignalBuilt =>
        LET f == hb.final_signal
        IN /\ f.conviction = compute_conviction(f.effective_score)
           /\ BelowThresholds(ctx.cfg, f) =>
                 f.direction = 0 /\ hb.reason = "BelowThreshold"
           /\ ~BelowThresholds(ctx.cfg, f) =>
                 f.direction = Signum(f.effective_score) /\ hb.reason = "Normal"
           /\ f.direction # 0 =>
                 f.effective_score # 0 /\ f.direction = Signum(f.effective_score)

\* Direction, conviction, effective score, raw and macro-adjusted scores
\* are all zero.
FullyFlat(sig) ==
    /\ sig.final_signal.direction = 0
    /\ sig.final_signal.conviction = 0
    /\ sig.final_signal.effective_score = 0
    /\ sig.raw.trend_score = 0 /\ sig.raw.carry_score = 0
    /\ sig.macro_adj.trend_macro_adjusted = 0
    /\ sig.macro_adj.carry_macro_adjusted = 0

\* C30: evaluate_instrument returns a signal for every history; fewer than
\* 120 bars give reason InsufficientHistory whatever the last bar holds, 120
\* bars or more with a last bar failing a feature check give InvalidData,
\* and in both cases the signal is fully flat.
C30_BadDataGivesFlatSignal ==
    spc = "signal_done" =>
        /\ hb.instrument = ctx.instrument
        /\ hb.reason \in {"InsufficientHistory", "InvalidData", "BelowThreshold", "Normal"}
        /\ ctx.hist.n_bars < 120 =>
              hb.reason = "InsufficientHistory" /\ FullyFlat(hb)
        /\ ctx.hist.n_bars >= 120 /\ ~validate_features(ctx.hist.last) =>
              hb.reason = "InvalidData" /\ FullyFlat(hb)
        /\ ctx.hist.n_bars >= 120 /\ validate_features(ctx.hist.last) =>
              hb.reason \in {"BelowThreshold", "Normal"}

\* A history of 119 bars whose last bar has no ATR was answered with
\* InsufficientHistory.
C30_Witness ==
    /\ spc = "signal_done"
    /\ ctx.hist.n_bars = 119
    /\ ctx.hist.last.atr_14 = 0
    /\ hb.reason = "InsufficientHistory"
    /\ FullyFlat(hb)

\* The instruments of a plan, in the plan's order.
InstrumentSeq(plan) == [i \in 1..Len(plan) |-> plan[i].instrument]

\* Sequence a is sequence b with some elements left out.
RECURSIVE IsSubsequence(_, _)
IsSubsequence(a, b) ==
    IF a = <<>> THEN TRUE
    ELSE IF b = <<>> THEN FALSE
    ELSE IF Head(a) = Head(b) THEN IsSubsequence(Tail(a), Tail(b))
    ELSE IsSubsequence(a, Tail(b))

\* C31: every entry of plan_contracts has 1 <= |target_contracts| <= its
\* instrument's max_contracts, the |target_contracts| sum to at most
\* max_total_contracts, the entries follow the order of the planned
\* positions, and a planned position is left without entry only when the
\* entries use up the whole max_total_contracts.
C31_ContractsWithinBudgets ==
    spc = "done" =>
        LET pc == hb.planned_contracts
            total == SumSeq([i \in 1..Len(pc) |-> Abs(pc[i].target_contracts)])
        IN /\ \A i \in 1..Len(pc) :
                 /\ Abs(pc[i].target_contracts) >= 1
                 /\ Abs(pc[i].target_contracts)
                       <= InstBudget(budget, pc[i].instrument).max_contracts
           /\ total <= budget.max_total_contracts
           /\ IsSubsequence(InstrumentSeq(pc), InstrumentSeq(hb.planned_positions))
           /\ Len(pc) < Len(hb.planned_positions) =>
                 total = budget.max_total_contracts

\* The first planned instrument took the whole sleeve budget of three
\* contracts and the instrument after it got no entry.
C31_Witness ==
    /\ spc = "done"
    /\ Len(hb.planned_positions) >= 2
    /\ Len(hb.planned_contracts) = 1
    /\ hb.planned_contracts[1].instrument = hb.planned_positions[1].instrument
    /\ Abs(hb.planned_contracts[1].target_contracts) = budget.max_total_contracts

----------------------------------------------------------------------------
(* The kernel evaluated over the sleeve states a caller hands it (SpecSlices) *)

\* The sleeves a caller may hold a state for; EquityLongShort has no
\* SleeveRiskConfig in KernelConfig.
CallerSleeveIds == {"MicroFuturesMacroTrend", "OptionsVolPremium", "EquityLongShort"}

\* The slices handed to evaluate: one to three states of different sleeves,
\* each at its allocation.
CallerSlices ==
    {[i \in 1..Len(ids) |->
         [sleeve_id |-> ids[i],
          equity_usd |-> 200000,
          realized_pnl_usd |-> 0,
          unrealized_pnl_usd |-> 0,
          peak_equity_usd |-> 200000,
          open_positions |-> 0]] :
       ids \in UNION {Orders(D) : D \in (SUBSET CallerSleeveIds) \ {{}}}}

\* Equity the caller wrote into one of its sleeve states: -15%, flat, a new high.
SliceEquities == {170000, 200000, 220000}

\* evaluate over the caller's slice; a panic ends the run.
EvaluateSlice ==
    /\ kop # "panic"
    /\ \E p \in SleeveTickPortfolios, k \in 1..Len(sleeves), eq \in SliceEquities,
          n \in 0..MaxOpen :
          evaluate(p, BaseMargin, BaseVol,
                   [i \in 1..Len(sleeves) |->
                       [equity_usd |-> IF i = k THEN eq ELSE sleeves[i].equity_usd,
                        open_positions |-> IF i = k THEN n ELSE sleeves[i].open_positions]])

InitSlices ==
    /\ config = KernelConfig
    /\ peak = KernelConfig.portfolio.initial_equity_usd
    /\ sleeves \in CallerSlices
    /\ tick = NoTick
    /\ envelopes = NoEnvelopes
    /\ kop = "new"
    /\ cashflow = NoCashflow
    /\ SleeveIdle
    /\ ExecutionIdle

NextSlices == EvaluateSlice /\ UNCHANGED <<svars, xvars>>

SpecSlices == InitSlices /\ [][NextSlices]_vars

\* C32: a call of evaluate over a slice holding a sleeve state without
\* SleeveRiskConfig panics and returns no envelope; every call that returns
\* envelopes was given configured sleeves only, and each envelope's ceiling
\* is within its own sleeve's configured max_concurrent_positions.
C32_MissingConfigPanics ==
    kop # "new" =>
        /\ (\E i \in 1..Len(sleeves) : ~HasSleeveConfig(config, sleeves[i].sleeve_id))
              <=> kop = "panic"
        /\ kop = "panic" => envelopes = NoEnvelopes
        /\ kop # "panic" =>
              /\ Len(envelopes) = Len(sleeves)
              /\ \A i \in 1..Len(envelopes) :
                    envelopes[i].max_concurrent_positions
                       <= Max(sleeves[i].open_positions,
                              SleeveConfigOf(config, sleeves[i].sleeve_id)
                                  .max_concurrent_positions)

\* The call panicked on the second state of a slice whose first state is
\* configured and had reached a new high.
C32_Witness ==
    /\ kop = "panic"
    /\ Len(sleeves) >= 2
    /\ HasSleeveConfig(config, sleeves[1].sleeve_id)
    /\ sleeves[2].sleeve_id = "EquityLongShort"
    /\ sleeves[1].peak_equity_usd = 220000
    /\ envelopes = NoEnvelopes

\* C33: under a Healthy engine, a Halt without any Kill only blocks new
\* trades, so the heartbeat emits no order intent at all (nothing is opened
\* and no held position is closed); under a Kill every held position is
\* closed in full.
C33_HaltLetsPositionsRun ==
    (HeartbeatDone /\ ctx.engine_health = "Healthy") =>
        LET env == ctx.risk_envelope
            kill == env.portfolio_halt = "Kill" \/ env.sleeve_halt = "Kill"
            halt == ~kill /\ (env.portfolio_halt = "Halt" \/ env.sleeve_halt = "Halt")
        IN /\ halt => hb.order_intents = <<>>
           /\ kill =>
                 \A inst \in Instruments :
                     CurrentPosition(ctx, inst) # 0 =>
                         \E k \in 1..Len(hb.order_intents) :
                             /\ hb.order_intents[k].instrument = inst
                             /\ hb.order_intents[k].delta_contracts
                                   = -CurrentPosition(ctx, inst)

\* C34: after evaluate, a portfolio whose current_leverage is at or above
\* max_leverage gives every envelope leverage_scalar 0 and
\* max_position_size_usd 0; in every envelope the leverage scalar lies in
\* [0, 1.10] and max_position_size_usd is at most exposure_remaining_usd.
C34_LeverageAtMaxZeroesSize ==
    kop = "evaluate" =>
        \A i \in 1..Len(envelopes) :
            /\ tick.portfolio.current_leverage >= config.portfolio.max_leverage =>
                  /\ envelopes[i].leverage_scalar = 0
                  /\ envelopes[i].max_position_size_usd = 0
            /\ envelopes[i].leverage_scalar >= 0
            /\ envelopes[i].leverage_scalar <= 11000
            /\ envelopes[i].max_position_size_usd <= envelopes[i].exposure_remaining_usd

\* A tick exactly at max_leverage with exposure headroom left and no halt:
\* the size is zero because of the leverage alone.
C34_Witness ==
    /\ kop = "evaluate"
    /\ tick.portfolio.current_leverage = config.portfolio.max_leverage
    /\ envelopes[1].exposure_remaining_usd > 0
    /\ envelopes[1].margin_remaining_usd > 0
    /\ envelopes[1].portfolio_halt = "None"
    /\ envelopes[1].sleeve_halt = "None"
    /\ envelopes[1].leverage_scalar = 0
    /\ envelopes[1].max_position_size_usd = 0

\* The fields of an envelope that are computed once per call.
SharedFields(env) ==
    <<env.exposure_remaining_usd, env.margin_remaining_usd, env.portfolio_halt,
      env.portfolio_risk_state, env.volatility_regime_scalar, env.leverage_scalar>>

\* C35: a call of evaluate that returns gives one envelope per sleeve state
\* passed, in input order and with that state's sleeve_id; all envelopes of
\* the call agree on exposure_remaining_usd, margin_remaining_usd,
\* portfolio_halt, portfolio_risk_state and the two scalars; the kernel
\* config is unchanged, the kernel's peak is the old peak or the equity of
\* the tick if higher, and each sleeve state is left as passed except for
\* peak_equity_usd, which is the passed peak or the passed equity if higher.
C35_EvaluateFrame ==
    [][kop' = "evaluate" =>
          /\ Len(envelopes') = Len(tick'.sleeves)
          /\ \A i \in 1..Len(envelopes') :
                /\ envelopes'[i].sleeve_id = tick'.sleeves[i].sleeve_id
                /\ SharedFields(envelopes'[i]) = SharedFields(envelopes'[1])
          /\ config' = config
          /\ peak' = (IF EquityNow(tick'.portfolio) > peak
                      THEN EquityNow(tick'.portfolio) ELSE peak)
          /\ Len(sleeves') = Len(tick'.sleeves)
          /\ \A i \in 1..Len(sleeves') :
                sleeves'[i] =
                   [tick'.sleeves[i] EXCEPT !.peak_equity_usd =
                       IF tick'.sleeves[i].equity_usd > tick'.sleeves[i].peak_equity_usd
                       THEN tick'.sleeves[i].equity_usd
                       ELSE tick'.sleeves[i].peak_equity_usd]]_vars

\* A call over the options and the futures state, in that order (the
\* reverse of the config's), with the options sleeve in drawdown and the
\* futures sleeve at a new high.
C35_Witness ==
    /\ kop = "evaluate"
    /\ Len(envelopes) = 2
    /\ envelopes[1].sleeve_id = "OptionsVolPremium"
    /\ envelopes[2].sleeve_id = "MicroFuturesMacroTrend"
    /\ sleeves[1].equity_usd = 170000
    /\ sleeves[1].peak_equity_usd = 200000
    /\ sleeves[2].peak_equity_usd = 220000
    /\ sleeves[2].open_positions = MaxOpen

----------------------------------------------------------------------------
(* The kernel over a grid of volatility regimes (SpecVolatility) *)

\* Readings on, just below and just above every threshold of
\* derive_volatility_scalar: RV 12 / 20 / 30, VIX 15 / 25 / 35, slope 0 / 0.5.
RegimeGrid ==
    [rv10_annualized : {10, 11, 12, 19, 20, 29, 30, 31},
     vix_level : {12, 14, 15, 24, 25, 34, 35, 36},
     vix_term_slope : {-1, 0, 5, 6}]

\* A tick on which only the volatility regime is read.
EvaluateRegime ==
    \E vol \in RegimeGrid :
        evaluate(BasePortfolio, BaseMargin, vol, BaseSleeveUpdate)

InitVolatility == KernelNew /\ SleeveIdle /\ ExecutionIdle

NextVolatility == EvaluateRegime /\ UNCHANGED <<svars, xvars>>

SpecVolatility == InitVolatility /\ [][NextVolatility]_vars

\* VIX >= 35 or RV >= 30 or slope < 0
StressReading(vol) ==
    vol.vix_level >= 35 \/ vol.rv10_annualized >= 30 \/ vol.vix_term_slope < 0

\* VIX >= 25 or RV >= 20
ElevatedReading(vol) == vol.vix_level >= 25 \/ vol.rv10_annualized >= 20

\* VIX < 15 and RV < 12 and slope > 0.5
LowVolReading(vol) ==
    vol.vix_level < 15 /\ vol.rv10_annualized < 12 /\ vol.vix_term_slope > 5

\* C36: the volatility scalar of every envelope is 0.55 under a Stress
\* reading, else 0.80 under an Elevated reading, else 1.25 under a Low-vol
\* reading, else 1.00; it is one of these four values, within [0.5, 1.3];
\* and low VIX and RV with an inverted slope give 0.55, not 1.25.
C36_VolatilityScalarByRegime ==
    kop = "evaluate" =>
        \A i \in 1..Len(envelopes) :
            LET scalar == envelopes[i].volatility_regime_scalar
                vol == tick.vol
            IN /\ StressReading(vol) => scalar = 55
               /\ ~StressReading(vol) /\ ElevatedReading(vol) => scalar = 80
               /\ ~StressReading(vol) /\ ~ElevatedReading(vol) /\ LowVolReading(vol)
                     => scalar = 125
               /\ ~StressReading(vol) /\ ~ElevatedReading(vol) /\ ~LowVolReading(vol)
                     => scalar = 100
               /\ scalar \in {55, 80, 100, 125}
               /\ scalar >= 50 /\ scalar <= 130
               /\ vol.vix_level < 15 /\ vol.rv10_annualized < 12 /\ vol.vix_term_slope < 0
                     => scalar = 55

\* VIX exactly 35 with RV 20: Stress and Elevated both match, Stress wins.
C36_Witness ==
    /\ kop = "evaluate"
    /\ tick.vol.vix_level = 35
    /\ tick.vol.rv10_annualized = 20
    /\ tick.vol.vix_term_slope = 6
    /\ envelopes[1].volatility_regime_scalar = 55

\* Some envelope of the call carries a Halt or Kill.
SomeHalt(envs) ==
    \E i \in 1..Len(envs) :
        IsHaltOrKill(envs[i].portfolio_halt) \/ IsHaltOrKill(envs[i].sleeve_halt)

\* C37: a call of evaluate that follows a call in Halt or Kill returns
\* portfolio_halt None as soon as the equity of its tick is above the halt
\* threshold relative to the current peak, and sleeve_halt None for a sleeve
\* whose equity is above its halt threshold relative to its peak; an
\* envelope without halt, with both headrooms and a positive leverage scalar
\* then has a nonzero max_position_size_usd again.
C37_HaltIsNotLatched ==
    [][(kop = "evaluate" /\ SomeHalt(envelopes) /\ kop' = "evaluate") =>
          \A i \in 1..Len(envelopes') :
              LET scfg == SleeveConfigOf(config, sleeves'[i].sleeve_id)
              IN /\ ~DrawdownAtOrBelow(EquityNow(tick'.portfolio), peak',
                                       config.portfolio.halt_dd_frac)
                       => envelopes'[i].portfolio_halt = "None"
                 /\ ~DrawdownAtOrBelow(sleeves'[i].equity_usd, sleeves'[i].peak_equity_usd,
                                       scfg.halt_dd_frac)
                       => envelopes'[i].sleeve_halt = "None"
                 /\ (/\ envelopes'[i].portfolio_halt = "None"
                     /\ envelopes'[i].sleeve_halt = "None"
                     /\ envelopes'[i].exposure_remaining_usd > 0
                     /\ envelopes'[i].margin_remaining_usd > 0
                     /\ envelopes'[i].leverage_scalar > 0)
                       => envelopes'[i].max_position_size_usd > 0]_vars

\* A tick below a peak that an earlier tick raised, above the halt
\* threshold: no halt and a nonzero size.
C37_Witness ==
    /\ kop = "evaluate"
    /\ EquityNow(tick.portfolio) < peak
    /\ peak > config.portfolio.initial_equity_usd
    /\ envelopes[1].portfolio_halt = "None"
    /\ envelopes[1].sleeve_halt = "None"
    /\ envelopes[1].max_position_size_usd > 0

\* The order intents of the heartbeat for instrument inst.
IntentsFor(inst) ==
    {k \in 1..Len(hb.order_intents) : hb.order_intents[k].instrument = inst}

\* C38: under a Healthy engine and no halt, an envelope without position
\* size or without any slot gives an empty plan; and every held instrument
\* without an entry in the planned contracts gets exactly one order intent,
\* with delta = -current.
C38_UntargetedHoldingsAreFlattened ==
    (/\ HeartbeatDone
     /\ ctx.engine_health = "Healthy"
     /\ ~IsHaltOrKill(ctx.risk_envelope.portfolio_halt)
     /\ ~IsHaltOrKill(ctx.risk_envelope.sleeve_halt))
    => /\ (\/ ctx.risk_envelope.max_position_size_usd <= 0
           \/ ctx.risk_envelope.max_concurrent_positions = 0)
          => hb.planned_positions = <<>> /\ hb.planned_contracts = <<>>
       /\ \A inst \in Instruments :
             (/\ CurrentPosition(ctx, inst) # 0
              /\ inst \notin InstrumentsOf(hb.planned_contracts))
             => /\ Cardinality(IntentsFor(inst)) = 1
                /\ \A k \in IntentsFor(inst) :
                      hb.order_intents[k].delta_contracts = -CurrentPosition(ctx, inst)

\* A held instrument has a planned position but no contracts, the
\* instruments before it having used the contract budget, and is closed.
C38_Witness ==
    /\ HeartbeatDone
    /\ ctx.engine_health = "Healthy"
    /\ ~IsHaltOrKill(ctx.risk_envelope.portfolio_halt)
    /\ ~IsHaltOrKill(ctx.risk_envelope.sleeve_halt)
    /\ \E inst \in Instruments :
          /\ CurrentPosition(ctx, inst) # 0
          /\ inst \in InstrumentsOf(hb.planned_positions)
          /\ inst \notin InstrumentsOf(hb.planned_contracts)
          /\ \E k \in IntentsFor(inst) :
                hb.order_intents[k].delta_contracts = -CurrentPosition(ctx, inst)

\* max_global_positions less the open positions of the slice passed, at
\* least zero.
SlotsLeft ==
    Max(config.portfolio.max_global_positions
           - SumSeq([i \in 1..Len(tick.sleeves) |-> tick.sleeves[i].open_positions]), 0)

\* C39: after evaluate, when the global slots left are more than zero but
\* fewer than the sleeve states passed, every envelope's
\* max_concurrent_positions is min(configured max, open_positions), so no
\* sleeve may open a position; when no global slot is left every ceiling
\* equals the sleeve's open_positions.
C39_FewSlotsGiveNoExtra ==
    kop = "evaluate" =>
        \A i \in 1..Len(envelopes) :
            LET scfg == SleeveConfigOf(config, sleeves[i].sleeve_id)
            IN /\ (SlotsLeft > 0 /\ SlotsLeft < Len(tick.sleeves)) =>
                     /\ envelopes[i].max_concurrent_positions
                           = Min(scfg.max_concurrent_positions, sleeves[i].open_positions)
                     /\ envelopes[i].max_concurrent_positions <= sleeves[i].open_positions
               /\ SlotsLeft = 0 =>
                     envelopes[i].max_concurrent_positions = sleeves[i].open_positions

\* One global slot left for two sleeves holding one position each: both
\* ceilings stay at one although the futures sleeve is configured for three.
C39_Witness ==
    /\ kop = "evaluate"
    /\ Len(sleeves) = 2
    /\ SlotsLeft = 1
    /\ sleeves[1].open_positions = 1
    /\ sleeves[2].open_positions = 1
    /\ SleeveConfigOf(config, sleeves[1].sleeve_id).max_concurrent_positions > 1
    /\ envelopes[1].max_concurrent_positions = 1
    /\ envelopes[2].max_concurrent_positions = 1

\* The signal of instrument inst in the context of the heartbeat.
SignalOf(inst) ==
    evaluate_instrument(DefaultSleeveConfig, inst, ctx.histories[inst], ctx.macro_scalars)

\* An instrument with a history whose signal is Normal with direction dir.
TradableAs(inst, dir) ==
    /\ inst \in DOMAIN ctx.histories
    /\ SignalOf(inst).reason = "Normal"
    /\ SignalOf(inst).final_signal.direction = dir
    /\ dir # 0

\* C40: every entry of the planned positions and of the planned contracts of
\* a heartbeat is for an instrument that has a history and a signal with
\* reason Normal and nonzero direction, and the sign of its target notional
\* or target contracts is that direction; so an instrument without history
\* or with a flat signal has no entry.
C40_TargetsFollowNormalSignals ==
    HeartbeatDone =>
        /\ \A i \in 1..Len(hb.planned_positions) :
              LET pp == hb.planned_positions[i]
              IN /\ TradableAs(pp.instrument, pp.target_direction)
                 /\ TradableAs(pp.instrument, Signum(pp.target_notional_usd))
        /\ \A i \in 1..Len(hb.planned_contracts) :
              TradableAs(hb.planned_contracts[i].instrument,
                         Signum(hb.planned_contracts[i].target_contracts))

\* A long and a short entry are planned while another instrument of the
\* context, below the thresholds or with bad data, has none.
C40_Witness ==
    /\ HeartbeatDone
    /\ \E i, j \in 1..Len(hb.planned_contracts) :
          /\ hb.planned_contracts[i].target_contracts > 0
          /\ hb.planned_contracts[j].target_contracts < 0
    /\ \E inst \in DOMAIN ctx.histories :
          /\ SignalOf(inst).reason \in {"BelowThreshold", "InvalidData", "InsufficientHistory"}
          /\ inst \notin InstrumentsOf(hb.planned_positions)

====
